---- MODULE Spec2Model ----
(***************************************************************************)
(* Ingestion pipeline of spanish-law-mcp: the rate-limited fetcher         *)
(* (lib/fetcher.ts), the census builder (scripts/census.ts) and the        *)
(* census-driven ingestion orchestrator (scripts/ingest.ts).               *)
(***************************************************************************)
EXTENDS Integers, Sequences, FiniteSets, TLC

(***************************************************************************)
(* Bounds of the model.                                                    *)
(***************************************************************************)
NItems == 2        \* catalog items
MaxBatch == 2      \* --batch-size ranges over 1..MaxBatch
MaxLimit == 2      \* --limit ranges over 0..MaxLimit, or is absent (limitGiven)
MaxRuns == 2       \* ingestion processes started in one behaviour
PAGE_SIZE == 2     \* items per catalog page (10000 in census.ts), scaled down
MaxCatalog == 4    \* items of the remote catalog that the census pages through
MaxBlocks == 2     \* article candidates of a markup document
MaxParses == 3     \* calls of the parser in one behaviour
ContentCap == 6    \* characters kept of a provision body (12000 in parser.ts), scaled down

Null == "null"

\* A file of the data directory: missing, unparsable (JSON.parse throws), or a document
NoFile == [state |-> "absent"]
CorruptFile == [state |-> "corrupt"]
File(doc) == [state |-> "ok", doc |-> doc]

NullDate == <<Null>>     \* ingestion_date: null

\* new Date().toISOString().slice(0, 10) in the k-th ingest process
Day(k) == <<"day", k>>

Ids == 1..NItems

(***************************************************************************)
(* Sequence helpers (Array.prototype.filter / reduce / slice).             *)
(***************************************************************************)
RECURSIVE SumCounts(_)
SumCounts(laws) ==
    IF laws = <<>> THEN 0
    ELSE Head(laws).provision_count + SumCounts(Tail(laws))

CountWhere(laws, Test(_)) == Len(SelectSeq(laws, Test))

(***************************************************************************)
(* Strings that the code compares or reformats are sequences of character  *)
(* codes; localeCompare on digits and '-' is the code-point order.         *)
(***************************************************************************)
Dash == 45
Zero == 48
EmptyStr == <<>>

RECURSIVE StrLess(_, _)
StrLess(a, b) ==
    IF b = <<>> THEN FALSE
    ELSE IF a = <<>> THEN TRUE
    ELSE IF Head(a) # Head(b) THEN Head(a) < Head(b)
    ELSE StrLess(Tail(a), Tail(b))

\* '0000-00-00'
ZeroDate == <<Zero, Zero, Zero, Zero, Dash, Zero, Zero, Dash, Zero, Zero>>

\* BOE dates, YYYYMMDD
Date2020 == <<50, 48, 50, 48, 48, 49, 48, 49>>
Date2021 == <<50, 48, 50, 49, 48, 49, 48, 49>>

VARIABLES
    catalog,          \* the remote catalog: the items the BOE API returns, in its order
    endpoint,         \* the document source: how it answers the fetch for each id
    disk,             \* data/census.json (NoFile until a census was written)
    seeds,            \* data/seed/<id>.json
    source,           \* data/source/<id>.html
    census,           \* the ingest process's in-memory census (NoCensus when none runs)
    pending,          \* the ingest process's work list
    idx,              \* entries of pending the loop has consumed
    flags,            \* parseArgs() of the ingest process
    tally,            \* processed / succeeded / failed / fallbacks / skipped
    results,          \* IngestionResult[] (status of each)
    pc,               \* "idle": no ingest process; "loop": one is in its loop
    runs,             \* ingest processes started so far
    hist,             \* history of the current resumption experiment
    writable,         \* the directories of data/ that accept fs.writeFileSync
    writeErrors       \* fs.writeFileSync calls of the ingest process that threw

ingestVars == <<catalog, endpoint, disk, seeds, source, census, pending, idx,
                flags, tally, results, pc, runs, hist, writable, writeErrors>>

faultVars == <<writable, writeErrors>>

\* the census process (scripts/census.ts main)
VARIABLES
    cpc,              \* "idle" | "fetch" | "collected" | "done" | "aborted"
    cargs,            \* parseArgs() of the census process
    offset,           \* let offset
    allItems,         \* let allItems
    requested,        \* the offsets requested so far, in order
    pages             \* the pages returned so far, in order

pageVars == <<cpc, cargs, offset, allItems, requested, pages>>

VARIABLES
    docs,             \* the markup documents handed to the parser
    parses            \* the calls of parseSpanishHtml so far: input, item, output

parseVars == <<docs, parses>>

InitNoParse ==
    /\ docs = <<>>
    /\ parses = <<>>

NoArgs == [limit |-> 0, estatalOnly |-> FALSE]

CensusArgs == [limit : 0..MaxLimit, estatalOnly : BOOLEAN]

InitPage ==
    /\ cpc = "idle"
    /\ cargs = NoArgs
    /\ offset = 0
    /\ allItems = <<>>
    /\ requested = <<>>
    /\ pages = <<>>

Dirs == {"source", "seed", "census"}

(***************************************************************************)
(* scripts/census.ts                                                       *)
(***************************************************************************)
\* a status mapping that looks at the consolidation status first
mapStatusStalenessFirst(item) ==
    IF item.estado_consolidacion.codigo = "4" THEN "amended"
    ELSE IF item.vigencia_agotada = "S" THEN "repealed"
    ELSE "in_force"

mapStatus(item) ==
    IF item.vigencia_agotada = "S" THEN "repealed"
    ELSE IF item.estado_consolidacion.codigo = "4" THEN "amended"
    ELSE "in_force"

formatDate(boeDate) ==
    IF Len(boeDate) < 8 THEN EmptyStr
    ELSE SubSeq(boeDate, 1, 4) \o <<Dash>> \o SubSeq(boeDate, 5, 6)
         \o <<Dash>> \o SubSeq(boeDate, 7, 8)

checkIngested(seedDir, id) ==
    IF id \in DOMAIN seedDir /\ seedDir[id].state # "absent"
    THEN IF seedDir[id].state # "corrupt"
         THEN [ingested |-> TRUE,
               provisionCount |-> Len(seedDir[id].doc.provisions),
               ingestionDate |-> IF "ingestion_date" \in DOMAIN seedDir[id].doc
                                 THEN seedDir[id].doc.ingestion_date ELSE NullDate]
         ELSE [ingested |-> FALSE, provisionCount |-> 0, ingestionDate |-> NullDate]
    ELSE [ingested |-> FALSE, provisionCount |-> 0, ingestionDate |-> NullDate]

\* identificador: '' (no identifier)
NoId == 0

\* a classifier that sets outdated consolidations aside
classifyItemSkipsOutdated(item) ==
    IF item.url_html_consolidada = EmptyStr THEN "not_ingestable"
    ELSE IF item.identificador = NoId THEN "not_ingestable"
    ELSE IF item.estado_consolidacion.codigo = "4" THEN "skip"
    ELSE "ingestable"

classifyItem(item) ==
    IF item.url_html_consolidada = EmptyStr THEN "not_ingestable"
    ELSE IF item.identificador = NoId THEN "not_ingestable"
    ELSE IF item.estado_consolidacion.codigo = "4" THEN "ingestable"
    ELSE "ingestable"

censusEntry(item, seedDir) ==
    LET chk == checkIngested(seedDir, item.identificador) IN
    [id |-> item.identificador,
     url |-> item.url_html_consolidada,
     status |-> mapStatus(item),
     classification |-> classifyItem(item),
     ingested |-> chk.ingested,
     provision_count |-> chk.provisionCount,
     ingestion_date |-> chk.ingestionDate,
     rango |-> item.rango.texto,
     ambito_codigo |-> item.ambito.codigo,
     ambito |-> item.ambito.texto,
     fecha_disposicion |-> formatDate(item.fecha_disposicion),
     vigencia_agotada |-> item.vigencia_agotada,
     estado_consolidacion_codigo |-> item.estado_consolidacion.codigo,
     url_html_consolidada |-> item.url_html_consolidada]

\* the comparator of entries.sort: TRUE when a goes before b
sortBefore(a, b) ==
    LET dateA == IF a.fecha_disposicion # EmptyStr THEN a.fecha_disposicion ELSE ZeroDate
        dateB == IF b.fecha_disposicion # EmptyStr THEN b.fecha_disposicion ELSE ZeroDate
    IN IF dateA # dateB THEN StrLess(dateB, dateA) ELSE a.id < b.id

\* entries.sort is stable: an entry stays before the later entries that the
\* comparator does not put before it
RECURSIVE insertSorted(_, _)
insertSorted(e, sorted) ==
    IF sorted = <<>> THEN <<e>>
    ELSE IF ~sortBefore(Head(sorted), e) THEN <<e>> \o sorted
    ELSE <<Head(sorted)>> \o insertSorted(e, Tail(sorted))

RECURSIVE sortEntries(_)
sortEntries(entries) ==
    IF entries = <<>> THEN <<>>
    ELSE insertSorted(Head(entries), sortEntries(Tail(entries)))

IsIngestable(e) == e.classification = "ingestable"
IsNotIngestable(e) == e.classification = "not_ingestable"
IsSkip(e) == e.classification = "skip"
IsIngested(e) == e.ingested

\* rangoBreakdown: for each rango.texto met in the loop, the items that have it
rangoBreakdown(items) ==
    [r \in {items[k].rango.texto : k \in 1..Len(items)} |->
        Cardinality({k \in 1..Len(items) : items[k].rango.texto = r})]

\* scopeBreakdown: for each ambito.texto met in the loop, the items that have it
scopeBreakdown(items) ==
    [a \in {items[k].ambito.texto : k \in 1..Len(items)} |->
        Cardinality({k \in 1..Len(items) : items[k].ambito.texto = a})]

\* a census whose breakdowns count the ingestable items only
buildCensusBreakdownOfIngestable(items, seedDir) ==
    LET entries == sortEntries([k \in 1..Len(items) |-> censusEntry(items[k], seedDir)])
        counted == SelectSeq(items, LAMBDA it : classifyItem(it) = "ingestable")
    IN
    [summary |-> [total_laws |-> Len(entries),
                  total_ingestable |-> CountWhere(entries, IsIngestable),
                  total_not_ingestable |-> CountWhere(entries, IsNotIngestable),
                  total_skip |-> CountWhere(entries, IsSkip),
                  total_ingested |-> CountWhere(entries, IsIngested),
                  total_provisions |-> SumCounts(entries),
                  scope_breakdown |-> scopeBreakdown(counted),
                  rango_breakdown |-> rangoBreakdown(counted)],
     laws |-> entries]

buildCensus(items, seedDir) ==
    LET entries == sortEntries([k \in 1..Len(items) |-> censusEntry(items[k], seedDir)]) IN
    [summary |-> [total_laws |-> Len(entries),
                  total_ingestable |-> CountWhere(entries, IsIngestable),
                  total_not_ingestable |-> CountWhere(entries, IsNotIngestable),
                  total_skip |-> CountWhere(entries, IsSkip),
                  total_ingested |-> CountWhere(entries, IsIngested),
                  total_provisions |-> SumCounts(entries),
                  scope_breakdown |-> scopeBreakdown(items),
                  rango_breakdown |-> rangoBreakdown(items)],
     laws |-> entries]

(***************************************************************************)
(* scripts/lib/parser.ts.  A markup document is taken as the regular       *)
(* expressions of the parser cut it: divs tells whether it has             *)
(* <div class="articulo"> containers (the primary strategy) or only        *)
(* article headings (the fallback strategy), and each block carries what   *)
(* the expressions match in it:                                            *)
(*   ordinal    the ordinal matched after "Articulo" in the heading, as    *)
(*              written (<<>> when the heading has none)                   *)
(*   idOrdinal  the ordinal matched in the container's id attribute        *)
(*   title      the title matched after the ordinal in the heading         *)
(*   contentDefs  the body holds 'a los efectos de' or 'se entenderá por'   *)
(*   body       the body text, markup stripped and whitespace normalised   *)
(*   matches    the matches of the three definition patterns in the text   *)
(* Strings are sequences of character codes.                               *)
(***************************************************************************)
Space == 32

\* n characters of text
Text(n) == [k \in 1..n |-> 120]

toLowerCase(str) ==
    [k \in 1..Len(str) |->
        IF str[k] \in 65..90 \cup (192..222 \ {215}) THEN str[k] + 32 ELSE str[k]]

\* str.includes(sub)
includes(str, sub) ==
    \E i \in 1..(Len(str) - Len(sub) + 1) : SubSeq(str, i, i + Len(sub) - 1) = sub

\* 'definicion', 'definición', 'conceptos'
Definicion == <<100, 101, 102, 105, 110, 105, 99, 105, 111, 110>>
DefinicionAccent == <<100, 101, 102, 105, 110, 105, 99, 105, 243, 110>>
Conceptos == <<99, 111, 110, 99, 101, 112, 116, 111, 115>>

\* the title 'Definiciones'
Definiciones == <<68, 101, 102, 105, 110, 105, 99, 105, 111, 110, 101, 115>>

\* replace(/\s+/g, '')
stripSpaces(str) == SelectSeq(str, LAMBDA c : c # Space)

RECURSIVE trimStart(_)
trimStart(str) ==
    IF str # <<>> /\ Head(str) = Space THEN trimStart(Tail(str)) ELSE str

RECURSIVE trimEnd(_)
trimEnd(str) ==
    IF str # <<>> /\ str[Len(str)] = Space THEN trimEnd(SubSeq(str, 1, Len(str) - 1)) ELSE str

trim(str) == trimEnd(trimStart(str))

\* a body that is stored whole
substringWhole(content) == content

\* content.substring(0, 12000), the cap scaled to ContentCap
substringCap(content) ==
    SubSeq(content, 1, IF Len(content) < ContentCap THEN Len(content) ELSE ContentCap)

\* a key derivation that keeps the digits of the ordinal only
provisionRefDigitsOnly(articleNum) ==
    <<97, 114, 116>> \o SelectSeq(articleNum, LAMBDA c : c \in 48..57)

\* normalizedNum
normalizedNum(articleNum) == stripSpaces(toLowerCase(articleNum))

\* provisionRef: `art${normalizedNum}`
provisionRef(articleNum) == <<97, 114, 116>> \o normalizedNum(articleNum)

\* term.length > 1 && term.length < 100 && definition.length > 10
accepts(term, definition) ==
    Len(term) > 1 /\ Len(term) < 100 /\ Len(definition) > 10

\* definitions.some(d => same term in lower case, same source provision)
exists(definitions, term, sourceProvision) ==
    \E k \in 1..Len(definitions) :
        /\ toLowerCase(definitions[k].term) = toLowerCase(term)
        /\ definitions[k].source_provision = sourceProvision

\* one while loop of extractDefinitions: the matches of one pattern, in order
RECURSIVE extractPattern(_, _, _, _)
extractPattern(ms, pattern, sourceProvision, definitions) ==
    IF ms = <<>> THEN definitions
    ELSE LET term == trim(Head(ms).term)
             definition == trim(Head(ms).definition)
             keep == /\ Head(ms).pattern = pattern
                     /\ accepts(term, definition)
                     /\ (pattern = 1 \/ ~exists(definitions, term, sourceProvision))
         IN extractPattern(Tail(ms), pattern, sourceProvision,
                           IF keep
                           THEN Append(definitions, [term |-> term, definition |-> definition,
                                                     source_provision |-> sourceProvision])
                           ELSE definitions)

extractDefinitions(block, sourceProvision, definitions) ==
    extractPattern(block.matches, 3, sourceProvision,
        extractPattern(block.matches, 2, sourceProvision,
            extractPattern(block.matches, 1, sourceProvision, definitions)))

\* articleNum of the primary strategy: the heading's ordinal, else the id's
articleNumOf(block) ==
    IF stripSpaces(trim(block.ordinal)) # <<>> THEN stripSpaces(trim(block.ordinal))
    ELSE block.idOrdinal

\* a loop body that keeps every candidate, under a placeholder key if need be
parseBlockKeepsAll(block, divs, acc) ==
    LET articleNum == IF divs THEN articleNumOf(block) ELSE stripSpaces(trim(block.ordinal)) IN
    [acc EXCEPT !.provisions =
        Append(@, [provision_ref |-> provisionRef(articleNum),
                   section |-> normalizedNum(articleNum),
                   title |-> block.title,
                   content |-> substringCap(block.body)])]

\* the body of the for loop of either strategy, for one candidate
parseBlock(block, divs, acc) ==
    LET articleNum == IF divs THEN articleNumOf(block) ELSE stripSpaces(trim(block.ordinal))
        ref == provisionRef(articleNum)
        pushed == [acc EXCEPT !.provisions =
                      Append(@, [provision_ref |-> ref,
                                 section |-> normalizedNum(articleNum),
                                 title |-> block.title,
                                 content |-> substringCap(block.body)])]
        titleDefs == \/ includes(toLowerCase(block.title), Definicion)
                     \/ includes(toLowerCase(block.title), DefinicionAccent)
        defsArticle == IF divs
                       THEN \/ titleDefs
                            \/ includes(toLowerCase(block.title), Conceptos)
                            \/ block.contentDefs
                       ELSE titleDefs
    IN IF articleNum = <<>> THEN acc
       ELSE IF Len(block.body) < 5 THEN acc
       ELSE IF defsArticle
            THEN [pushed EXCEPT !.definitions = extractDefinitions(block, ref, @)]
            ELSE pushed

RECURSIVE parseBlocks(_, _, _)
parseBlocks(blocks, divs, acc) ==
    IF blocks = <<>> THEN acc
    ELSE parseBlocks(Tail(blocks), divs, parseBlock(Head(blocks), divs, acc))

\* the fallback strategy sees the blocks that start with an article heading
HasHeadingOrdinal(block) == block.ordinal # <<>>

parseSpanishHtml(html, act) ==
    LET candidates == IF html.divs THEN html.blocks ELSE SelectSeq(html.blocks, HasHeadingOrdinal)
        out == parseBlocks(candidates, html.divs, [provisions |-> <<>>, definitions |-> <<>>])
    IN [id |-> act.id, url |-> act.url,
        provisions |-> out.provisions,
        definitions |-> out.definitions]

\* a block with a body of five characters and no definitions
PlainBlock(ordinal) ==
    [ordinal |-> ordinal, idOrdinal |-> <<>>, title |-> <<>>, contentDefs |-> FALSE,
     body |-> Text(5), matches |-> <<>>]

(***************************************************************************)
(* The regular expressions of the parser, applied to the text of one       *)
(* provision container: the heading text (stripHtml of the <h5> element)   *)
(* and the body text (stripHtml of what follows the heading).              *)
(***************************************************************************)
Dot == 46
Colon == 58
Digits == 48..57
Letters == (65..90) \cup (97..122)
EnyeLetters == Letters \cup {241, 209}      \* [a-zñ] under the i flag

\* 'articulo', 'artículo': Art[ií]culo under the i flag, in lower case
ArticuloWords == {<<97, 114, 116, 105, 99, 117, 108, 111>>, <<97, 114, 116, 237, 99, 117, 108, 111>>}

\* bis|ter|quater|quinquies|sexies|septies|octies
Suffixes == {<<98, 105, 115>>, <<116, 101, 114>>, <<113, 117, 97, 116, 101, 114>>,
             <<113, 117, 105, 110, 113, 117, 105, 101, 115>>,
             <<115, 101, 120, 105, 101, 115>>,
             <<115, 101, 112, 116, 105, 101, 115>>,
             <<111, 99, 116, 105, 101, 115>>}

\* 'a los efectos de', 'se entenderá por'
ALosEfectosDe == <<97, 32, 108, 111, 115, 32, 101, 102, 101, 99, 116, 111, 115, 32, 100, 101>>
SeEntenderaPor == <<115, 101, 32, 101, 110, 116, 101, 110, 100, 101, 114, 225, 32, 112, 111, 114>>

\* the first index at or after i whose character is outside set
RECURSIVE span(_, _, _)
span(str, i, set) ==
    IF i <= Len(str) /\ str[i] \in set THEN span(str, i + 1, set) ELSE i

\* the first index at or after i whose character is in set
RECURSIVE indexOfAny(_, _, _)
indexOfAny(str, i, set) ==
    IF i <= Len(str) /\ str[i] \notin set THEN indexOfAny(str, i + 1, set) ELSE i

\* str[i] = c, false past the end of str
charAt(str, i, c) == i >= 1 /\ i <= Len(str) /\ str[i] = c

\* the least and the greatest member of a non-empty set of indices
least(set) == CHOOSE x \in set : \A y \in set : x <= y
greatest(set) == CHOOSE x \in set : \A y \in set : x >= y

\* Art[ií]culo\s+(\d+[a-zA-Z]*(?:\s+(?:bis|...))?) matched at index i:
\* group 1 is str[from..to]
ordinalAt(str, i) ==
    LET spaces == i + 8
        digits == span(str, spaces, {Space})
        letters == span(str, digits, Digits)
        plain == span(str, letters, Letters)
        suffix == span(str, plain, {Space})
        suffixed == {suffix + Len(x) - 1 :
                        x \in {y \in Suffixes :
                                 /\ suffix > plain
                                 /\ suffix + Len(y) - 1 <= Len(str)
                                 /\ toLowerCase(SubSeq(str, suffix, suffix + Len(y) - 1)) = y}}
    IN IF /\ i + 7 <= Len(str)
          /\ toLowerCase(SubSeq(str, i, i + 7)) \in ArticuloWords
          /\ digits > spaces
          /\ letters > digits
       THEN [found |-> TRUE, from |-> digits,
             to |-> IF suffixed # {} THEN greatest(suffixed) ELSE plain - 1]
       ELSE [found |-> FALSE, from |-> 0, to |-> 0]

\* headingText.match(<the ordinal expression>): the leftmost match
numMatch(headingText) ==
    LET starts == {i \in 1..Len(headingText) : ordinalAt(headingText, i).found} IN
    IF starts = {} THEN [found |-> FALSE, from |-> 0, to |-> 0]
    ELSE ordinalAt(headingText, least(starts))

\* numMatch[1], as written in the heading
ordinalOf(headingText) ==
    LET m == numMatch(headingText) IN
    IF m.found THEN SubSeq(headingText, m.from, m.to) ELSE <<>>

\* titleMatch[1].trim().replace(/^[.\s]+/, ''): what follows the ordinal and
\* an optional full stop
titleOf(headingText) ==
    LET m == numMatch(headingText)
        rest == IF charAt(headingText, m.to + 1, Dot) THEN m.to + 2 ELSE m.to + 1
        title == trim(SubSeq(headingText, rest, Len(headingText)))
    IN IF m.found
       THEN SubSeq(title, span(title, 1, {Dot, Space}), Len(title))
       ELSE <<>>

\* the characters that end a definition's continuation: [^a-zñ\)] under the
\* i flag, [^«"], [^0-9]
stopClass(pattern) ==
    CASE pattern = 1 -> EnyeLetters \cup {41}
      [] pattern = 2 -> {171, 34}
      [] pattern = 3 -> Digits

\* a numbered pattern whose full stop after the number is optional
prefixEndDotOptional(text, s, pattern) ==
    CASE pattern = 1 ->
           IF charAt(text, s + 1, 41) /\ text[s] \in EnyeLetters THEN s + 1 ELSE 0
      [] pattern = 2 ->
           IF text[s] \in {171, 34} THEN s ELSE 0
      [] pattern = 3 ->
           IF text[s] \in Digits
           THEN IF charAt(text, span(text, s, Digits), Dot)
                THEN span(text, s, Digits) ELSE span(text, s, Digits) - 1
           ELSE 0

\* the last index of what precedes the term when a pattern is tried at index
\* s, 0 when it does not match there: [a-zñ]\)  [«"]  \d+\.
prefixEnd(text, s, pattern) ==
    CASE pattern = 1 ->
           IF charAt(text, s + 1, 41) /\ text[s] \in EnyeLetters THEN s + 1 ELSE 0
      [] pattern = 2 ->
           IF text[s] \in {171, 34} THEN s ELSE 0
      [] pattern = 3 ->
           IF text[s] \in Digits /\ charAt(text, span(text, s, Digits), Dot)
           THEN span(text, s, Digits) ELSE 0

\* one pattern of extractDefinitions tried at index s.  The term runs to the
\* first colon (to the closing quote, which a colon follows, for pattern 2);
\* the definition runs to the first full stop and on to the last full stop
\* of the stretch without stop characters that follows it.
matchAt(text, s, pattern) ==
    LET p == prefixEnd(text, s, pattern)
        close == indexOfAny(text, p + 1, {187, 34})
        colon == IF pattern = 2 THEN close + 1 ELSE indexOfAny(text, p + 1, {Colon})
        termTo == IF pattern = 2 THEN close - 1 ELSE colon - 1
        stop == indexOfAny(text, colon + 1, {Dot})
        runEnd == indexOfAny(text, stop + 1, stopClass(pattern)) - 1
        stops == {k \in (stop + 2)..runEnd : text[k] = Dot}
        end == IF stops = {} THEN stop ELSE greatest(stops)
    IN IF /\ p > 0
          /\ charAt(text, colon, Colon)
          /\ termTo > p
          /\ stop <= Len(text)
          /\ stop > colon + 1
       THEN [found |-> TRUE, end |-> end,
             term |-> SubSeq(text, p + 1, termTo),
             definition |-> SubSeq(text, colon + 1, end)]
       ELSE [found |-> FALSE, end |-> 0, term |-> <<>>, definition |-> <<>>]

\* while ((match = pattern.exec(text)) !== null): the matches from index
\* from on, each search starting where the last match ended
RECURSIVE execAll(_, _, _)
execAll(text, from, pattern) ==
    LET starts == {s \in from..Len(text) : matchAt(text, s, pattern).found} IN
    IF starts = {} THEN <<>>
    ELSE LET m == matchAt(text, least(starts), pattern) IN
         <<[pattern |-> pattern, term |-> m.term, definition |-> m.definition]>>
             \o execAll(text, m.end + 1, pattern)

\* a provision container as the expressions cut it: its heading text and its
\* body text; stripHtml of the whole container joins them with one space
cutBlock(headingText, content) ==
    LET text == trim(headingText \o <<Space>> \o content) IN
    [ordinal |-> ordinalOf(headingText),
     idOrdinal |-> <<>>,
     title |-> titleOf(headingText),
     contentDefs |-> \/ includes(toLowerCase(content), ALosEfectosDe)
                     \/ includes(toLowerCase(content), SeEntenderaPor),
     body |-> content,
     matches |-> execAll(text, 1, 1) \o execAll(text, 1, 2) \o execAll(text, 1, 3)]

(***************************************************************************)
(* scripts/lib/fetcher.ts, as the orchestrator sees it: the retry loop run *)
(* against a document source that answers every attempt for one id the     *)
(* same way.                                                               *)
(***************************************************************************)
DEFAULT_MAX_RETRIES == 3

\* markup served for an id: a list of provision containers, each holding the
\* article ordinal of its heading (0: no ordinal can be determined)
\* the page of item id: id articles, and a container without ordinal
PageOf(id) ==
    [divs |-> TRUE,
     blocks |-> [k \in 1..id |-> PlainBlock(<<Zero + k>>)] \o <<PlainBlock(<<>>)>>]

Behaviours == {"ok", "notfound", "unavailable", "neterr"}

Respond(behaviour, id) ==
    CASE behaviour = "ok" -> [kind |-> "http", status |-> 200, body |-> PageOf(id)]
      [] behaviour = "notfound" -> [kind |-> "http", status |-> 404, body |-> <<>>]
      [] behaviour = "unavailable" -> [kind |-> "http", status |-> 503, body |-> <<>>]
      [] OTHER -> [kind |-> "neterr"]

\* a retry test that takes every 4xx for transient
RetryableAnyError(status) == status >= 400

Retryable(status) == status = 429 \/ status >= 500

RECURSIVE fetchLoop(_, _, _, _)
fetchLoop(behaviour, id, attempt, maxRetries) ==
    IF attempt > maxRetries
    THEN [kind |-> "throw", status |-> 0, body |-> <<>>]
    ELSE LET response == Respond(behaviour, id) IN
         IF response.kind = "neterr"
         THEN [kind |-> "throw", status |-> 0, body |-> <<>>]
         ELSE IF Retryable(response.status) /\ attempt < maxRetries
              THEN fetchLoop(behaviour, id, attempt + 1, maxRetries)
              ELSE [kind |-> "return", status |-> response.status, body |-> response.body]

(***************************************************************************)
(* scripts/ingest.ts                                                       *)
(***************************************************************************)
censusEntryToAct(entry) ==
    [id |-> entry.id,
     url |-> IF entry.url_html_consolidada # EmptyStr
             THEN entry.url_html_consolidada ELSE entry.url]

createFallbackSeed(act) ==
    [id |-> act.id, url |-> act.url, provisions |-> <<>>, definitions |-> <<>>]

\* a saveCensus that recounts the ingested entries and not their provisions
saveCensusStaleProvisions(c) ==
    [c EXCEPT !.summary.total_ingested = CountWhere(c.laws, IsIngested)]

\* the recomputed document; fs.writeFileSync(CENSUS_PATH, ...) stores it
saveCensus(c) ==
    [c EXCEPT !.summary.total_ingested = CountWhere(c.laws, IsIngested),
              !.summary.total_provisions = SumCounts(c.laws)]

\* censusMap.get(id): the last entry of census.laws with that id
censusMapGet(c, id) ==
    LET ks == {k \in 1..Len(c.laws) : c.laws[k].id = id} IN
    IF ks = {} THEN 0 ELSE CHOOSE k \in ks : \A j \in ks : j <= k

\* an update that takes an entry without provisions as not ingested
markIngestedIfProvisions(c, id, provCount, date) ==
    LET k == censusMapGet(c, id) IN
    IF k = 0 THEN c
    ELSE [c EXCEPT !.laws[k] = [@ EXCEPT !.ingested = provCount > 0,
                                         !.provision_count = provCount,
                                         !.ingestion_date = date]]

\* "Update census entry": censusEntry.ingested = true, the count and the date
markIngested(c, id, provCount, date) ==
    LET k == censusMapGet(c, id) IN
    IF k = 0 THEN c
    ELSE [c EXCEPT !.laws[k] = [@ EXCEPT !.ingested = TRUE,
                                         !.provision_count = provCount,
                                         !.ingestion_date = date]]

keptDate(c, id, date) ==
    LET k == censusMapGet(c, id) IN
    IF k # 0 /\ c.laws[k].ingestion_date # NullDate
    THEN c.laws[k].ingestion_date ELSE date

\* a work list filter that does not look at the classification
IsPendingAnyClass(l) == ~l.ingested

IsPendingForced(l) == l.classification = "ingestable"
IsPending(l) == l.classification = "ingestable" /\ ~l.ingested

allPending(c, fl) ==
    IF fl.force THEN SelectSeq(c.laws, IsPendingForced) ELSE SelectSeq(c.laws, IsPending)

\* a work list built from the end of the census
buildPendingReversed(c, fl) ==
    LET p == allPending(c, fl)
        r == [k \in 1..Len(p) |-> p[Len(p) + 1 - k]]
    IN IF fl.limit # 0 /\ Len(p) > fl.limit THEN SubSeq(r, 1, fl.limit) ELSE r

buildPending(c, fl) ==
    LET p == allPending(c, fl) IN
    IF fl.limit # 0 /\ Len(p) > fl.limit THEN SubSeq(p, 1, fl.limit) ELSE p

\* the counters of main(), and fetches: the calls of fetchWithRateLimit so far
ZeroTally == [processed |-> 0, succeeded |-> 0, failed |-> 0, fallbacks |-> 0, skipped |-> 0,
              fetches |-> 0]

\* "Save census periodically", at the end of the loop body
periodicSave(st, fl) ==
    IF st.tally.processed % fl.batchSize = 0
    THEN [st EXCEPT !.census = saveCensus(st.census), !.disk = File(saveCensus(st.census))]
    ELSE st

\* a resume path that rewrites the seed file it has read
resumeSkipRewritesSeed(s0, entry, seedFile, day) ==
    [s0 EXCEPT !.seeds[entry.id] = File(createFallbackSeed(censusEntryToAct(entry))),
               !.tally.skipped = @ + 1,
               !.results = Append(@, "skipped")]

\* "Resume: skip if seed exists and not in force mode"
resumeSkip(s0, entry, seedFile, day) ==
    IF seedFile.state = "ok"
    THEN LET provCount == Len(seedFile.doc.provisions) IN
         [s0 EXCEPT !.census = markIngested(s0.census, entry.id, provCount,
                                            keptDate(s0.census, entry.id, day)),
                    !.tally.skipped = @ + 1,
                    !.results = Append(@, "skipped")]
    ELSE [s0 EXCEPT !.tally.skipped = @ + 1,
                    !.results = Append(@, "skipped")]

\* a non-200 branch that records the entry the way the catch block does
ingestFallbackTalliedFailed(s0, entry, act, day) ==
    [s0 EXCEPT !.seeds[act.id] = File(createFallbackSeed(act)),
               !.census = markIngested(s0.census, entry.id, 0, day),
               !.tally.failed = @ + 1,
               !.results = Append(@, "failed")]

\* a non-200 branch that caches the body of the error response
ingestFallbackCachesBody(s0, entry, act, day) ==
    [s0 EXCEPT !.source[act.id] = File(<<>>),
               !.seeds[act.id] = File(createFallbackSeed(act)),
               !.census = markIngested(s0.census, entry.id, 0, day),
               !.tally.fallbacks = @ + 1,
               !.results = Append(@, "fallback")]

\* a non-200 branch that pushes no result record
ingestFallbackNoResult(s0, entry, act, day) ==
    [s0 EXCEPT !.seeds[act.id] = File(createFallbackSeed(act)),
               !.census = markIngested(s0.census, entry.id, 0, day),
               !.tally.fallbacks = @ + 1]

\* the non-200 branch, which ends in `continue`
ingestFallback(s0, entry, act, day) ==
    [s0 EXCEPT !.seeds[act.id] = File(createFallbackSeed(act)),
               !.census = markIngested(s0.census, entry.id, 0, day),
               !.tally.fallbacks = @ + 1,
               !.results = Append(@, "fallback")]

\* a catch block that only counts the failure
ingestFailedNoRecord(s0, entry, act, day) ==
    [s0 EXCEPT !.tally.failed = @ + 1,
               !.results = Append(@, "failed")]

\* the catch block
ingestFailed(s0, entry, act, day) ==
    [s0 EXCEPT !.seeds[act.id] = File(createFallbackSeed(act)),
               !.census = markIngested(s0.census, entry.id, 0, day),
               !.tally.failed = @ + 1,
               !.results = Append(@, "failed")]

\* a success branch that counts the containers of the markup, not the
\* provisions of the parsed document
ingestSuccessCountsBlocks(s0, entry, act, html, cached, day) ==
    LET parsed == parseSpanishHtml(html, act) IN
    [s0 EXCEPT !.source[act.id] = IF cached THEN @ ELSE File(html),
               !.seeds[act.id] = File(parsed),
               !.census = markIngested(s0.census, entry.id, Len(html.blocks), day),
               !.tally.succeeded = @ + 1,
               !.results = Append(@, "success")]

\* the 200 / cached branch; the markup cache is written only after a fetch
ingestSuccess(s0, entry, act, html, cached, day) ==
    LET parsed == parseSpanishHtml(html, act) IN
    [s0 EXCEPT !.source[act.id] = IF cached THEN @ ELSE File(html),
               !.seeds[act.id] = File(parsed),
               !.census = markIngested(s0.census, entry.id, Len(parsed.provisions), day),
               !.tally.succeeded = @ + 1,
               !.results = Append(@, "success")]

\* One iteration of `for (const entry of pending)`.  st holds the process's
\* memory (census, tally, results) and the files (disk, seeds, source).
processEntry(st, entry, fl, day, ep) ==
    LET act == censusEntryToAct(entry)
        seedFile == st.seeds[act.id]
        s0 == [st EXCEPT !.tally.processed = @ + 1]
    IN
    IF ~fl.force /\ seedFile.state # "absent"
    THEN resumeSkip(s0, entry, seedFile, day)
    ELSE LET cached == s0.source[act.id].state # "absent" /\ fl.skipFetch
             fetchResult == fetchLoop(ep[act.id], act.id, 0, DEFAULT_MAX_RETRIES)
             s1 == IF cached THEN s0 ELSE [s0 EXCEPT !.tally.fetches = @ + 1]
         IN
         IF ~cached /\ fetchResult.kind = "throw"
         THEN periodicSave(ingestFailed(s1, entry, act, day), fl)
         ELSE IF ~cached /\ fetchResult.status # 200
         THEN ingestFallback(s1, entry, act, day)
         ELSE periodicSave(
                ingestSuccess(s1, entry, act,
                              IF cached THEN s1.source[act.id].doc ELSE fetchResult.body,
                              cached, day), fl)

RECURSIVE runLoop(_, _, _, _, _)
runLoop(st, pend, fl, day, ep) ==
    IF pend = <<>> THEN st
    ELSE runLoop(processEntry(st, Head(pend), fl, day, ep), Tail(pend), fl, day, ep)

\* main() of ingest.ts run from start to end without interruption: the census file it leaves
ingestMain(censusFile, seedDir, sourceDir, fl, day, ep) ==
    LET loaded == censusFile.doc
        pend == buildPending(loaded, fl)
        st == runLoop([census |-> loaded, disk |-> censusFile, seeds |-> seedDir,
                       source |-> sourceDir, tally |-> ZeroTally, results |-> <<>>],
                      pend, fl, day, ep)
    IN IF pend = <<>> THEN censusFile ELSE File(saveCensus(st.census))

(***************************************************************************)
(* The ingest process when fs.writeFileSync can throw: w is the set of     *)
(* directories that accept a write.  st carries, besides the loop state,   *)
(* errors (writes that threw so far) and fatal (an exception left the      *)
(* loop, main() rejects).                                                  *)
(***************************************************************************)
\* saveCensus(census): the summary is recomputed in memory, then written
saveCensusFaulty(st, w) ==
    IF "census" \in w
    THEN [st EXCEPT !.census = saveCensus(st.census), !.disk = File(saveCensus(st.census))]
    ELSE [st EXCEPT !.census = saveCensus(st.census), !.errors = @ + 1, !.fatal = TRUE]

periodicSaveFaulty(st, fl, w) ==
    IF st.tally.processed % fl.batchSize = 0 THEN saveCensusFaulty(st, w) ELSE st

\* the catch block: its own write of the fallback seed is not guarded
catchBlock(s0, entry, act, day, w) ==
    IF "seed" \in w
    THEN ingestFailed(s0, entry, act, day)
    ELSE [s0 EXCEPT !.errors = @ + 1, !.fatal = TRUE]

\* the try block: thrown when it ends in the catch block, continued when it
\* ends in `continue`
tryBlock(sIn, entry, act, fl, day, ep, w) ==
    LET cached == sIn.source[act.id].state # "absent" /\ fl.skipFetch
        s0 == IF cached THEN sIn ELSE [sIn EXCEPT !.tally.fetches = @ + 1]
        fetchResult == fetchLoop(ep[act.id], act.id, 0, DEFAULT_MAX_RETRIES)
        html == IF cached THEN s0.source[act.id].doc ELSE fetchResult.body
    IN
    IF ~cached /\ fetchResult.kind = "throw"
    THEN [thrown |-> TRUE, continued |-> FALSE, st |-> s0]
    ELSE IF ~cached /\ fetchResult.status # 200
    THEN IF "seed" \in w
         THEN [thrown |-> FALSE, continued |-> TRUE, st |-> ingestFallback(s0, entry, act, day)]
         ELSE [thrown |-> TRUE, continued |-> FALSE, st |-> [s0 EXCEPT !.errors = @ + 1]]
    ELSE IF ~cached /\ "source" \notin w
    THEN [thrown |-> TRUE, continued |-> FALSE, st |-> [s0 EXCEPT !.errors = @ + 1]]
    ELSE IF "seed" \notin w
    THEN [thrown |-> TRUE, continued |-> FALSE,
          st |-> [s0 EXCEPT !.source[act.id] = IF cached THEN @ ELSE File(html),
                            !.errors = @ + 1]]
    ELSE [thrown |-> FALSE, continued |-> FALSE,
          st |-> ingestSuccess(s0, entry, act, html, cached, day)]

processEntryFaulty(st, entry, fl, day, ep, w) ==
    LET act == censusEntryToAct(entry)
        seedFile == st.seeds[act.id]
        s0 == [st EXCEPT !.tally.processed = @ + 1]
    IN
    IF ~fl.force /\ seedFile.state # "absent"
    THEN resumeSkip(s0, entry, seedFile, day)
    ELSE LET tried == tryBlock(s0, entry, act, fl, day, ep, w) IN
         IF tried.thrown
         THEN LET caught == catchBlock(tried.st, entry, act, day, w) IN
              IF caught.fatal THEN caught ELSE periodicSaveFaulty(caught, fl, w)
         ELSE IF tried.continued THEN tried.st
         ELSE periodicSaveFaulty(tried.st, fl, w)

\* a census document without its date fields
withoutDates(c) ==
    [summary |-> c.summary,
     laws |-> [k \in 1..Len(c.laws) |-> [c.laws[k] EXCEPT !.ingestion_date = NullDate]]]

(***************************************************************************)
(* scripts/lib/fetcher.ts as a state machine over a millisecond clock.     *)
(* Each caller is one invocation of fetchWithRateLimit at a time; its      *)
(* position is the await it is suspended at.                               *)
(***************************************************************************)
NCallers == 2      \* callers that may be inside fetchWithRateLimit at once
MaxCalls == 2      \* invocations of fetchWithRateLimit in one behaviour of SpecFetch
MaxConcurrentCalls == 3   \* the same in one behaviour of SpecFetchConcurrent
MaxRetries == 1    \* maxRetries ranges over 0..MaxRetries and the default
TickMs == 250      \* granularity of the clock
MaxLatencyMs == 750   \* a response or a network error arrives within this time

MIN_DELAY_MS == 500
BACKOFF_BASE_MS == 1000

Callers == 1..NCallers
RetryChoices == (0..MaxRetries) \cup {DEFAULT_MAX_RETRIES}

VARIABLES
    now,              \* Date.now()
    lastRequestTime,  \* the module variable of fetcher.ts
    call,             \* per caller: where its invocation stands
    calls,            \* invocations so far
    lastStart,        \* when the latest HTTP request started (-1: none yet)
    lastGap,          \* time between the latest two request starts (-1: fewer than two),
                      \* up to MIN_DELAY_MS
    callStart,        \* when the first request of the latest invocation started
    callGap,          \* the same between the first requests of the latest two invocations
    retried           \* some request so far was a retry

fetchVars == <<now, lastRequestTime, call, calls, lastStart, lastGap, callStart, callGap,
               retried>>

vars == <<ingestVars, fetchVars, pageVars, parseVars>>

\* what the document source may answer
HttpResponses ==
    { [kind |-> "http", status |-> 200, body |-> "markup", contentType |-> "text/html", url |-> "final"],
      [kind |-> "http", status |-> 404, body |-> "gone", contentType |-> Null, url |-> "final"],
      [kind |-> "http", status |-> 429, body |-> "slow", contentType |-> "text/html", url |-> "same"],
      [kind |-> "http", status |-> 503, body |-> "down", contentType |-> "text/html", url |-> "same"] }

NetError == [kind |-> "neterr"]
NoResponse == [kind |-> "none"]
NoResult == [kind |-> "none"]

IdleCall == [pc |-> "idle", maxRetries |-> 0, attempt |-> 0, wake |-> 0, sent |-> 0,
             requests |-> 0,
             slept |-> <<>>, first |-> NoResponse, last |-> NoResponse,
             retryableOnly |-> TRUE, result |-> NoResult]

Pow2(n) == IF n = 0 THEN 1 ELSE IF n = 1 THEN 2 ELSE IF n = 2 THEN 4 ELSE IF n = 3 THEN 8
           ELSE 16

\* a backoff that grows by a fixed step
backoffMsLinear(attempt) == (attempt + 1) * 2 * BACKOFF_BASE_MS

\* Math.pow(2, attempt + 1) * 1000
backoffMs(attempt) == Pow2(attempt + 1) * BACKOFF_BASE_MS

Gap(from, to) ==
    IF from < 0 THEN -1
    ELSE IF to - from >= MIN_DELAY_MS THEN MIN_DELAY_MS ELSE to - from

\* a rateLimit() that never waits
rateLimitNoSleep(t, last) == 0

\* rateLimit() up to its await: the time still to sleep (0: none)
rateLimitSleep(t, last) ==
    LET elapsed == t - last IN
    IF elapsed < MIN_DELAY_MS THEN MIN_DELAY_MS - elapsed ELSE 0

\* fetch(url, ...) is called: an HTTP request starts now
StartRequest(c, first) ==
    /\ retried' = (retried \/ ~first)
    /\ lastStart' = now
    /\ lastGap' = Gap(lastStart, now)
    /\ IF first
       THEN /\ callStart' = now
            /\ callGap' = Gap(callStart, now)
       ELSE UNCHANGED <<callStart, callGap>>

\* fetchWithRateLimit(url, maxRetries) is called and runs to its first await
Invoke(c, maxRetries, maxCalls) ==
    /\ call[c].pc \in {"idle", "done"}
    /\ calls < maxCalls
    /\ calls' = calls + 1
    /\ LET sleep == rateLimitSleep(now, lastRequestTime) IN
       IF sleep > 0
       THEN /\ call' = [call EXCEPT ![c] = [IdleCall EXCEPT !.pc = "rateLimit",
                                                            !.maxRetries = maxRetries,
                                                            !.wake = now + sleep]]
            /\ UNCHANGED <<lastRequestTime, lastStart, lastGap, callStart, callGap, retried>>
       ELSE /\ lastRequestTime' = now
            /\ call' = [call EXCEPT ![c] = [IdleCall EXCEPT !.pc = "fetch",
                                                            !.maxRetries = maxRetries,
                                                            !.sent = now,
                                                            !.requests = 1]]
            /\ StartRequest(c, TRUE)
    /\ UNCHANGED <<now, ingestVars, pageVars, parseVars>>

\* the timer of rateLimit() fires: lastRequestTime is set and the first request starts
RateLimitWake(c) ==
    /\ call[c].pc = "rateLimit"
    /\ now >= call[c].wake
    /\ lastRequestTime' = now
    /\ call' = [call EXCEPT ![c].pc = "fetch", ![c].sent = now, ![c].requests = 1]
    /\ StartRequest(c, TRUE)
    /\ UNCHANGED <<now, calls, ingestVars, pageVars, parseVars>>

fetchResultOf(response) ==
    [kind |-> "return",
     status |-> response.status,
     body |-> response.body,
     contentType |-> IF response.contentType = Null THEN "" ELSE response.contentType,
     url |-> response.url]

\* a loop body that gives up one retry early
afterResponseOneRetryShort(cl, response) ==
    LET seen == [cl EXCEPT !.last = response,
                           !.first = IF @ = NoResponse THEN response ELSE @,
                           !.retryableOnly = @ /\ Retryable(response.status)]
    IN IF Retryable(response.status) /\ cl.attempt + 1 < cl.maxRetries
       THEN [seen EXCEPT !.pc = "backoff",
                         !.wake = now + backoffMs(cl.attempt),
                         !.slept = Append(@, backoffMs(cl.attempt))]
       ELSE [seen EXCEPT !.pc = "done", !.result = fetchResultOf(response)]

\* what the loop body does with a response: sleep for a retry, or return
afterResponse(cl, response) ==
    LET seen == [cl EXCEPT !.last = response,
                           !.first = IF @ = NoResponse THEN response ELSE @,
                           !.retryableOnly = @ /\ Retryable(response.status)]
    IN IF Retryable(response.status) /\ cl.attempt < cl.maxRetries
       THEN [seen EXCEPT !.pc = "backoff",
                         !.wake = now + backoffMs(cl.attempt),
                         !.slept = Append(@, backoffMs(cl.attempt))]
       ELSE [seen EXCEPT !.pc = "done", !.result = fetchResultOf(response)]

\* await fetch(...) resolves with a response
Response(c, response) ==
    /\ call[c].pc = "fetch"
    /\ now > call[c].sent
    /\ call' = [call EXCEPT ![c] = afterResponse(call[c], response)]
    /\ UNCHANGED <<now, lastRequestTime, calls, lastStart, lastGap, callStart, callGap,
                   retried, ingestVars, pageVars, parseVars>>

\* a loop that treats a rejected request as a retryable response
NetworkErrorRetried(c) ==
    /\ call[c].pc = "fetch"
    /\ now > call[c].sent
    /\ call' = [call EXCEPT ![c] =
                  IF call[c].attempt < call[c].maxRetries
                  THEN [@ EXCEPT !.pc = "backoff",
                                 !.last = NetError,
                                 !.first = IF @ = NoResponse THEN NetError ELSE @,
                                 !.retryableOnly = FALSE,
                                 !.wake = now + backoffMs(call[c].attempt),
                                 !.slept = Append(@, backoffMs(call[c].attempt))]
                  ELSE [@ EXCEPT !.pc = "done",
                                 !.last = NetError,
                                 !.first = IF @ = NoResponse THEN NetError ELSE @,
                                 !.retryableOnly = FALSE,
                                 !.result = [kind |-> "throw", error |-> "network"]]]
    /\ UNCHANGED <<now, lastRequestTime, calls, lastStart, lastGap, callStart, callGap,
                   retried, ingestVars, pageVars, parseVars>>

\* await fetch(...) rejects: the error leaves fetchWithRateLimit
NetworkError(c) ==
    /\ call[c].pc = "fetch"
    /\ now > call[c].sent
    /\ call' = [call EXCEPT ![c].pc = "done",
                            ![c].last = NetError,
                            ![c].first = IF @ = NoResponse THEN NetError ELSE @,
                            ![c].retryableOnly = FALSE,
                            ![c].result = [kind |-> "throw", error |-> "network"]]
    /\ UNCHANGED <<now, lastRequestTime, calls, lastStart, lastGap, callStart, callGap,
                   retried, ingestVars, pageVars, parseVars>>

\* a loop whose `continue` does not count the attempt
BackoffWakeSameAttempt(c) ==
    /\ call[c].pc = "backoff"
    /\ now >= call[c].wake
    /\ call' = [call EXCEPT ![c].pc = "fetch",
                            ![c].sent = now,
                            ![c].requests = @ + 1]
    /\ StartRequest(c, FALSE)
    /\ UNCHANGED <<now, lastRequestTime, calls, ingestVars, pageVars, parseVars>>

\* the backoff timer fires: `continue`, attempt++, and the next attempt if any
BackoffWake(c) ==
    /\ call[c].pc = "backoff"
    /\ now >= call[c].wake
    /\ IF call[c].attempt + 1 <= call[c].maxRetries
       THEN /\ call' = [call EXCEPT ![c].pc = "fetch",
                                    ![c].attempt = @ + 1,
                                    ![c].sent = now,
                                    ![c].requests = @ + 1]
            /\ StartRequest(c, FALSE)
       ELSE /\ call' = [call EXCEPT ![c].pc = "done",
                                    ![c].attempt = @ + 1,
                                    ![c].result = [kind |-> "throw", error |-> "exhausted"]]
            /\ UNCHANGED <<lastStart, lastGap, callStart, callGap, retried>>
    /\ UNCHANGED <<now, lastRequestTime, calls, ingestVars, pageVars, parseVars>>

Sleeping(c) == call[c].pc \in {"rateLimit", "backoff"}

Active(c) == call[c].pc \in {"rateLimit", "fetch", "backoff"}

\* Time passes.  A timer fires less than TickMs after it is due and a request
\* is answered within MaxLatencyMs; with no call under way the clock is followed
\* only until the latest request is MIN_DELAY_MS old (from then on rateLimit()
\* takes the same branch whatever the time).
Tick ==
    /\ \A c \in Callers : Sleeping(c) => now < call[c].wake
    /\ \A c \in Callers : call[c].pc = "fetch" => now - call[c].sent < MaxLatencyMs
    /\ (\E c \in Callers : Active(c)) \/ (lastStart >= 0 /\ now - lastStart < MIN_DELAY_MS)
    /\ now' = now + TickMs
    /\ UNCHANGED <<lastRequestTime, call, calls, lastStart, lastGap, callStart, callGap,
                   retried, ingestVars, pageVars, parseVars>>

InitFetch ==
    /\ now = 2 * MIN_DELAY_MS
    /\ lastRequestTime = 0
    /\ call = [c \in Callers |-> IdleCall]
    /\ calls = 0
    /\ lastStart = -1
    /\ lastGap = -1
    /\ callStart = -1
    /\ callGap = -1
    /\ retried = FALSE

(***************************************************************************)
(* State machine of the data directory and of the one ingest process.      *)
(***************************************************************************)
Url(i) == <<Zero + i>>

\* rango.texto of the item at a position of the catalog
Rango(i) == IF i % 2 = 1 THEN "Ley" ELSE "Real Decreto"

Item(i, hasUrl) ==
    [identificador |-> i,
     url_html_consolidada |-> IF hasUrl THEN Url(i) ELSE EmptyStr,
     fecha_disposicion |-> IF i = 1 THEN Date2020 ELSE Date2021,
     ambito |-> [codigo |-> "1", texto |-> "Estatal"],
     rango |-> [texto |-> Rango(i)],
     vigencia_agotada |-> "N",
     estado_consolidacion |-> [codigo |-> "3"]]

NoCensus == [summary |-> <<>>, laws |-> <<>>]
NoFlags == [limit |-> 0, limitGiven |-> FALSE, skipFetch |-> FALSE, force |-> FALSE,
            batchSize |-> 1]
\* expect: what one uninterrupted run of the command line would have left;
\* capped: --limit cut the pending list; crashes: interruptions since; after: entries
\* the last interrupted process had processed; torn: an interruption fell inside a
\* seed write; exit: how the last process ended; writer: who wrote census.json last
NoHist == [expect |-> NoCensus, capped |-> FALSE, crashes |-> 0, after |-> 0,
           torn |-> FALSE, exit |-> "none", writer |-> "none"]

\* parseArgs: limitGiven tells --limit N from no --limit (limit null, 0 here:
\* main() tests it with "limit &&", which takes null and 0 alike)
FlagSets == {f \in [limit : 0..MaxLimit, limitGiven : BOOLEAN, skipFetch : BOOLEAN,
                    force : BOOLEAN, batchSize : 1..MaxBatch] :
                f.limitGiven \/ f.limit = 0}

InitIngest ==
    \* at most one catalog item lacks a consolidated-text URL, and the pages that
    \* are not served all fail the same way
    /\ \E missing \in {{}} \cup {{i} : i \in Ids} :
           catalog = [i \in Ids |-> Item(i, i \notin missing)]
    /\ \E bad \in SUBSET Ids, b \in Behaviours \ {"ok"} :
           endpoint = [i \in Ids |-> IF i \in bad THEN b ELSE "ok"]
    /\ disk = NoFile
    /\ seeds = [i \in Ids |-> NoFile]
    /\ source = [i \in Ids |-> NoFile]
    /\ census = NoCensus
    /\ pending = <<>>
    /\ idx = 0
    /\ flags = NoFlags
    /\ tally = ZeroTally
    /\ results = <<>>
    /\ pc = "idle"
    /\ runs = 0
    /\ hist = NoHist
    /\ writable = Dirs
    /\ writeErrors = 0

ProcessMemoryGone ==
    /\ census' = NoCensus
    /\ pending' = <<>>
    /\ idx' = 0
    /\ tally' = ZeroTally
    /\ results' = <<>>
    /\ pc' = "idle"

\* census.ts main(): the catalog is fetched whole, the census is built and written
CensusRun ==
    /\ pc = "idle"
    /\ disk' = File(buildCensus(catalog, seeds))
    /\ hist' = [NoHist EXCEPT !.writer = "census"]
    /\ UNCHANGED <<catalog, endpoint, seeds, source, census, pending, idx, flags,
                   tally, results, pc, runs, fetchVars, pageVars, parseVars,
                   faultVars>>

\* ingest.ts main() up to the loop
Launch(fl) ==
    LET loaded == disk.doc
        pend == buildPending(loaded, fl)
    IN /\ flags' = IF pend = <<>> THEN NoFlags ELSE fl
       /\ runs' = runs + 1
       /\ IF pend = <<>>
          THEN ProcessMemoryGone
          ELSE /\ census' = loaded
               /\ pending' = pend
               /\ idx' = 0
               /\ tally' = ZeroTally
               /\ results' = <<>>
               /\ pc' = "loop"
       /\ UNCHANGED <<catalog, endpoint, disk, seeds, source, fetchVars, pageVars, parseVars,
                   faultVars>>

StartIngest ==
    /\ pc = "idle"
    /\ disk.state = "ok"
    /\ runs < MaxRuns
    /\ \E fl \in FlagSets :
         /\ Launch(fl)
         /\ hist' = [expect |-> withoutDates(
                                  ingestMain(disk, seeds, source, fl, Day(runs + 1), endpoint).doc),
                     capped |-> fl.limit # 0 /\ Len(allPending(disk.doc, fl)) > fl.limit,
                     crashes |-> 0,
                     after |-> 0,
                     torn |-> FALSE,
                     writer |-> hist.writer,
                     exit |-> IF buildPending(disk.doc, fl) = <<>> THEN "done" ELSE "none"]

\* the same command line, run again after an interrupted run
ResumeIngest ==
    /\ pc = "idle"
    /\ hist.exit = "crashed"
    /\ runs < MaxRuns
    /\ Launch(flags)
    /\ hist' = [hist EXCEPT !.crashes = @ + 1,
                            !.exit = IF buildPending(disk.doc, flags) = <<>>
                                     THEN "done" ELSE "none"]

LoopState == [census |-> census, disk |-> disk, seeds |-> seeds, source |-> source,
              tally |-> tally, results |-> results]

IngestItem ==
    /\ pc = "loop"
    /\ idx < Len(pending)
    /\ LET st == processEntry(LoopState, pending[idx + 1], flags, Day(runs), endpoint) IN
         /\ census' = st.census
         /\ disk' = st.disk
         /\ seeds' = st.seeds
         /\ source' = st.source
         /\ tally' = st.tally
         /\ results' = st.results
         /\ hist' = [hist EXCEPT !.writer = IF st.disk # disk THEN "ingest" ELSE @]
    /\ idx' = idx + 1
    /\ UNCHANGED <<catalog, endpoint, pending, flags, pc, runs, fetchVars, pageVars, parseVars,
                   faultVars>>

\* "Final census save", and the process ends
FinalSave ==
    /\ pc = "loop"
    /\ idx = Len(pending)
    /\ disk' = File(saveCensus(census))
    /\ ProcessMemoryGone
    /\ flags' = NoFlags
    /\ hist' = [hist EXCEPT !.exit = "done", !.writer = "ingest"]
    /\ UNCHANGED <<catalog, endpoint, seeds, source, runs, fetchVars, pageVars, parseVars,
                   faultVars>>

\* the process is killed between two iterations, or before the final save
Crash ==
    /\ pc = "loop"
    /\ ProcessMemoryGone
    /\ hist' = [hist EXCEPT !.exit = "crashed", !.after = idx]
    /\ UNCHANGED <<catalog, endpoint, disk, seeds, source, flags, runs, fetchVars, pageVars, parseVars,
                   faultVars>>

\* the process is killed inside an iteration: after the markup cache was written,
\* while the seed file is being written, or after it was written and before the
\* periodic save
CrashInItem ==
    /\ pc = "loop"
    /\ idx < Len(pending)
    /\ LET id == pending[idx + 1].id
           st == processEntry(LoopState, pending[idx + 1], flags, Day(runs), endpoint)
       IN \E point \in {"after_source", "in_seed", "after_seed"} :
            /\ flags.force \/ seeds[id].state = "absent"
            /\ source' = st.source
            /\ seeds' = CASE point = "after_source" -> seeds
                          [] point = "in_seed" -> [seeds EXCEPT ![id] = CorruptFile]
                          [] OTHER -> st.seeds
            /\ hist' = [hist EXCEPT !.exit = "crashed",
                                    !.after = idx,
                                    !.torn = @ \/ point = "in_seed"]
    /\ ProcessMemoryGone
    /\ UNCHANGED <<catalog, endpoint, disk, flags, runs, fetchVars, pageVars, parseVars,
                   faultVars>>

IngestNext ==
    \/ CensusRun
    \/ StartIngest
    \/ ResumeIngest
    \/ IngestItem
    \/ FinalSave
    \/ Crash
    \/ CrashInItem

Init == InitIngest /\ InitFetch /\ InitPage /\ InitNoParse

Spec == Init /\ [][IngestNext]_vars

(***************************************************************************)
(* The ingest process run over a data directory some of whose parts may    *)
(* refuse writes (a full disk, a read-only directory).                     *)
(***************************************************************************)
\* main() up to the loop; the state of the directories is the environment's
FaultyStart ==
    /\ pc = "idle"
    /\ disk.state = "ok"
    /\ runs < MaxRuns
    /\ \E fl \in FlagSets, w \in SUBSET Dirs :
         LET pend == buildPending(disk.doc, fl) IN
         /\ writable' = w
         /\ writeErrors' = 0
         /\ runs' = runs + 1
         /\ flags' = IF pend = <<>> THEN NoFlags ELSE fl
         /\ IF pend = <<>>
            THEN ProcessMemoryGone
            ELSE /\ census' = disk.doc
                 /\ pending' = pend
                 /\ idx' = 0
                 /\ tally' = ZeroTally
                 /\ results' = <<>>
                 /\ pc' = "loop"
    /\ UNCHANGED <<catalog, endpoint, disk, seeds, source, hist, fetchVars, pageVars, parseVars>>

FaultyItem ==
    /\ pc = "loop"
    /\ idx < Len(pending)
    /\ LET st == processEntryFaulty(
                    [census |-> census, disk |-> disk, seeds |-> seeds, source |-> source,
                     tally |-> tally, results |-> results,
                     errors |-> writeErrors, fatal |-> FALSE],
                    pending[idx + 1], flags, Day(runs), endpoint, writable) IN
         /\ census' = st.census
         /\ disk' = st.disk
         /\ seeds' = st.seeds
         /\ source' = st.source
         /\ tally' = st.tally
         /\ results' = st.results
         /\ writeErrors' = st.errors
         /\ pc' = IF st.fatal THEN "aborted" ELSE "loop"
    /\ idx' = idx + 1
    /\ UNCHANGED <<catalog, endpoint, pending, flags, runs, hist, writable, fetchVars, pageVars, parseVars>>

\* "Final census save"
FaultyFinalSave ==
    /\ pc = "loop"
    /\ idx = Len(pending)
    /\ IF "census" \in writable
       THEN /\ disk' = File(saveCensus(census))
            /\ ProcessMemoryGone
            /\ flags' = NoFlags
            /\ writeErrors' = 0
       ELSE /\ pc' = "aborted"
            /\ writeErrors' = writeErrors + 1
            /\ UNCHANGED <<disk, census, pending, idx, tally, results, flags>>
    /\ UNCHANGED <<catalog, endpoint, seeds, source, runs, hist, writable, fetchVars, pageVars, parseVars>>

\* main().catch: 'Fatal error', process.exit(1)
FatalExit ==
    /\ pc = "aborted"
    /\ ProcessMemoryGone
    /\ flags' = NoFlags
    /\ writeErrors' = 0
    /\ UNCHANGED <<catalog, endpoint, disk, seeds, source, runs, hist, writable, fetchVars, pageVars, parseVars>>

FaultsNext ==
    \/ CensusRun
    \/ FaultyStart
    \/ FaultyItem
    \/ FaultyFinalSave
    \/ FatalExit

SpecFaults == Init /\ [][FaultsNext]_vars

(***************************************************************************)
(* scripts/census.ts main() as a state machine: the catalog is paged       *)
(* through, then the census is built and written.  The API serves at most  *)
(* PAGE_SIZE items per call, from the requested offset.                    *)
(***************************************************************************)
\* body.data of the page at an offset ([] when data is no array)
fetchPageData(cat, off) ==
    SubSeq(cat, off + 1, IF off + PAGE_SIZE < Len(cat) THEN off + PAGE_SIZE ELSE Len(cat))

\* a loop that takes every page of at most PAGE_SIZE items for the last
lastPageAtMost(items) == Len(items) <= PAGE_SIZE

\* "Last page": fewer than max items
lastPage(items) == Len(items) < PAGE_SIZE

IsEstatal(item) == item.ambito.codigo = "1"

\* Steps 2 and 3: the --estatal-only filter, then the --limit slice
selectItems(items, args) ==
    LET filtered == IF args.estatalOnly THEN SelectSeq(items, IsEstatal) ELSE items
    IN IF args.limit # 0 /\ Len(filtered) > args.limit
       THEN SubSeq(filtered, 1, args.limit) ELSE filtered

CensusStart ==
    /\ cpc = "idle"
    /\ cpc' = "fetch"
    /\ cargs' \in CensusArgs
    /\ offset' = 0
    /\ allItems' = <<>>
    /\ requested' = <<>>
    /\ pages' = <<>>
    /\ UNCHANGED <<ingestVars, fetchVars, parseVars>>

\* one iteration of while (true): fetchPage(offset) returns
FetchPageReturns ==
    /\ cpc = "fetch"
    /\ LET items == fetchPageData(catalog, offset) IN
         /\ requested' = Append(requested, offset)
         /\ pages' = Append(pages, items)
         /\ IF items = <<>>
            THEN /\ cpc' = "collected"
                 /\ UNCHANGED <<allItems, offset>>
            ELSE /\ allItems' = allItems \o items
                 /\ IF lastPage(items)
                    THEN cpc' = "collected" /\ UNCHANGED offset
                    ELSE cpc' = "fetch" /\ offset' = offset + PAGE_SIZE
    /\ UNCHANGED <<cargs, ingestVars, fetchVars, parseVars>>

\* a loop that takes a failed page for the end of the catalog
FetchPageThrowsKeepsPartial ==
    /\ cpc = "fetch"
    /\ requested' = Append(requested, offset)
    /\ cpc' = "collected"
    /\ UNCHANGED <<cargs, offset, allItems, pages, ingestVars, fetchVars, parseVars>>

\* fetchPage(offset) throws (the request fails, !response.ok, or the status
\* envelope is no success): main() rejects, main().catch exits
FetchPageThrows ==
    /\ cpc = "fetch"
    /\ \E why \in {"network", "http", "envelope"} :
         /\ requested' = Append(requested, offset)
         /\ cpc' = "aborted"
    /\ UNCHANGED <<cargs, offset, allItems, pages, ingestVars, fetchVars, parseVars>>

\* Steps 2 to 5: filter, limit, build the entries, sort, write census.json
CensusWrite ==
    /\ cpc = "collected"
    /\ LET limited == selectItems(allItems, cargs)
       IN /\ allItems' = limited
          /\ disk' = File(buildCensus(limited, seeds))
    /\ cpc' = "done"
    /\ UNCHANGED <<catalog, endpoint, seeds, source, census, pending, idx, flags, tally,
                   results, pc, runs, hist, faultVars, cargs, offset, requested, pages,
                   fetchVars, parseVars>>

CensusNext ==
    \/ CensusStart
    \/ FetchPageReturns
    \/ FetchPageThrows
    \/ CensusWrite

\* what the catalog may hold at a position: an identifier or none, a
\* consolidated-text URL or none, a consolidation that is up to date or not
ItemKinds == [hasId : BOOLEAN, hasUrl : BOOLEAN, outdated : BOOLEAN, expired : BOOLEAN]

PlainKind == [hasId |-> TRUE, hasUrl |-> TRUE, outdated |-> FALSE, expired |-> FALSE]

CatalogItem(i, kind) ==
    [identificador |-> IF kind.hasId THEN i ELSE NoId,
     url_html_consolidada |-> IF kind.hasUrl THEN Url(i) ELSE EmptyStr,
     fecha_disposicion |-> IF ((i + 1) \div 2) % 2 = 1 THEN Date2020 ELSE Date2021,
     ambito |-> IF i % 2 = 1 THEN [codigo |-> "1", texto |-> "Estatal"]
                ELSE [codigo |-> "2", texto |-> "Autonomico"],
     rango |-> [texto |-> Rango(i)],
     vigencia_agotada |-> IF kind.expired THEN "S" ELSE "N",
     estado_consolidacion |-> [codigo |-> IF kind.outdated THEN "4" ELSE "3"]]

\* the census of an earlier day, when the catalog held its first item only
EarlierCensus(cat, seedDir) ==
    buildCensus(SubSeq(cat, 1, IF Len(cat) < 1 THEN Len(cat) ELSE 1), seedDir)

InitCensusOnly ==
    /\ \E n \in 0..MaxCatalog, kinds \in [1..NItems -> ItemKinds] :
         catalog = [i \in 1..n |-> CatalogItem(i, IF i <= NItems THEN kinds[i] ELSE PlainKind)]
    /\ endpoint = [i \in Ids |-> "ok"]
    /\ seeds = [i \in 1..MaxCatalog |-> NoFile]
    /\ disk = File(EarlierCensus(catalog, seeds))
    /\ source = [i \in 1..MaxCatalog |-> NoFile]
    /\ census = NoCensus
    /\ pending = <<>>
    /\ idx = 0
    /\ flags = NoFlags
    /\ tally = ZeroTally
    /\ results = <<>>
    /\ pc = "idle"
    /\ runs = 0
    /\ hist = NoHist
    /\ writable = Dirs
    /\ writeErrors = 0
    /\ InitFetch
    /\ InitPage
    /\ InitNoParse

SpecCensus == InitCensusOnly /\ [][CensusNext]_vars

\* a call of fetchPage that was made returns or throws
SpecCensusFair == SpecCensus /\ WF_vars(FetchPageReturns \/ FetchPageThrows)

(***************************************************************************)
(* The parser alone: a process that calls parseSpanishHtml on two markup   *)
(* documents, in any order and any number of times up to MaxParses.        *)
(***************************************************************************)
\* ordinals as headings write them: "1", "2", "1a", "1A", "1 bis", "1bis"
Ordinals ==
    {<<49>>, <<50>>, <<49, 97>>, <<49, 65>>, <<49, 32, 98, 105, 115>>, <<49, 98, 105, 115>>}

\* blocks that differ in what tells their ordinal
OrdinalBlocks ==
    {[PlainBlock(o) EXCEPT !.idOrdinal = i] : o \in Ordinals \cup {<<>>}, i \in {<<>>, <<51>>}}

\* blocks that differ in the length of their body
BodyBlocks ==
    {[PlainBlock(<<49>>) EXCEPT !.body = Text(n)] : n \in {0, 4, 5, ContentCap, ContentCap + 1}}

\* terms of 1, 2, 99 and 100 characters, and one of 2 between spaces
Terms == {Text(1), Text(2), Text(99), Text(100), <<Space>> \o Text(2) \o <<Space>>}

\* definition texts of 9, 10 and 11 characters
Definitions == {Text(9), Text(10), Text(11)}

\* "ab" and "AB" with a definition that is long enough
TwinMatches == [pattern : 1..3, term : {<<97, 98>>, <<65, 66>>}, definition : {Text(11)}]

\* blocks of a definitions article: one match, or two matches of twin terms
DefinitionBlocks ==
    {[PlainBlock(<<49>>) EXCEPT !.title = Definiciones, !.matches = <<m>>] :
        m \in [pattern : 1..3, term : Terms, definition : Definitions]}
    \cup {[PlainBlock(<<49>>) EXCEPT !.contentDefs = TRUE, !.matches = <<m1, m2>>] :
            m1 \in TwinMatches, m2 \in TwinMatches}

\* the blocks that follow the first in a document
NextBlocks ==
    {PlainBlock(o) : o \in Ordinals}
    \cup {[PlainBlock(<<>>) EXCEPT !.idOrdinal = <<51>>],
          [PlainBlock(<<49>>) EXCEPT !.body = Text(ContentCap + 1)],
          [PlainBlock(<<49>>) EXCEPT !.title = Definiciones,
                                     !.matches = <<[pattern |-> 2, term |-> <<97, 98>>,
                                                    definition |-> Text(11)]>>]}

RECURSIVE BlockSeqs(_)
\* the sequences of 1 to n blocks
BlockSeqs(n) ==
    IF n = 1 THEN {<<b>> : b \in OrdinalBlocks \cup BodyBlocks \cup DefinitionBlocks}
    ELSE BlockSeqs(n - 1)
         \cup {Append(bs, b) : bs \in {x \in BlockSeqs(n - 1) : Len(x) = n - 1}, b \in NextBlocks}

Documents == [divs : BOOLEAN, blocks : {<<>>} \cup BlockSeqs(MaxBlocks)]

\* a document of one definitions article and one article of four characters
OtherDocument ==
    [divs |-> TRUE,
     blocks |-> <<[PlainBlock(<<50>>) EXCEPT !.title = Definiciones,
                      !.matches = <<[pattern |-> 1, term |-> <<99, 100>>,
                                     definition |-> Text(11)]>>],
                  [PlainBlock(<<51>>) EXCEPT !.body = Text(4)]>>]

\* the heading 'Artículo 3 bis. Definiciones' over the body
\* 'a) Dato: cualquier información.'
ExampleHeading ==
    <<65, 114, 116, 237, 99, 117, 108, 111, 32, 51, 32, 98, 105, 115, 46, 32, 68, 101, 102, 105, 110, 105, 99, 105, 111, 110, 101, 115>>
ExampleBody ==
    <<97, 41, 32, 68, 97, 116, 111, 58, 32, 99, 117, 97, 108, 113, 117, 105, 101, 114, 32, 105, 110, 102, 111, 114, 109, 97, 99, 105, 243, 110, 46>>

\* a document of that one provision container
ExampleDocument == [divs |-> TRUE, blocks |-> <<cutBlock(ExampleHeading, ExampleBody)>>]

\* the item metadata of a call
Act(i) == [id |-> i, url |-> Url(i)]

\* a parser that keeps its definitions array from one call to the next
definitionsKept(log) == IF log = <<>> THEN <<>> ELSE log[Len(log)].output.definitions

\* const definitions = []: every call starts from an empty array
definitionsAtEntry(log) == <<>>

\* one call of parseSpanishHtml(html, act)
Parse ==
    /\ Len(parses) < MaxParses
    /\ \E d \in 1..Len(docs) :
         LET out == parseSpanishHtml(docs[d], Act(d)) IN
         parses' = Append(parses,
                          [html |-> docs[d], act |-> Act(d),
                           output |-> [out EXCEPT !.definitions = definitionsAtEntry(parses) \o @]])
    /\ UNCHANGED <<docs, ingestVars, fetchVars, pageVars>>

InitParseOnly ==
    /\ \E doc \in Documents : docs = <<doc, OtherDocument, ExampleDocument>>
    /\ parses = <<>>
    /\ catalog = <<>>
    /\ endpoint = [i \in Ids |-> "ok"]
    /\ seeds = [i \in Ids |-> NoFile]
    /\ disk = NoFile
    /\ source = [i \in Ids |-> NoFile]
    /\ census = NoCensus
    /\ pending = <<>>
    /\ idx = 0
    /\ flags = NoFlags
    /\ tally = ZeroTally
    /\ results = <<>>
    /\ pc = "idle"
    /\ runs = 0
    /\ hist = NoHist
    /\ writable = Dirs
    /\ writeErrors = 0
    /\ InitFetch
    /\ InitPage

SpecParse == InitParseOnly /\ [][Parse]_vars

(***************************************************************************)
(* The fetcher alone: SpecFetch has one caller, which invokes              *)
(* fetchWithRateLimit again only after the previous call has ended (the    *)
(* single-threaded pipeline); SpecFetchConcurrent has NCallers callers.    *)
(***************************************************************************)
InitFetcherOnly ==
    /\ catalog = [i \in Ids |-> Item(i, TRUE)]
    /\ endpoint = [i \in Ids |-> "ok"]
    /\ disk = NoFile
    /\ seeds = [i \in Ids |-> NoFile]
    /\ source = [i \in Ids |-> NoFile]
    /\ census = NoCensus
    /\ pending = <<>>
    /\ idx = 0
    /\ flags = NoFlags
    /\ tally = ZeroTally
    /\ results = <<>>
    /\ pc = "idle"
    /\ runs = 0
    /\ hist = NoHist
    /\ writable = Dirs
    /\ writeErrors = 0
    /\ InitFetch
    /\ InitPage
    /\ InitNoParse

FetchNext ==
    \/ \E maxRetries \in RetryChoices : Invoke(1, maxRetries, MaxCalls)
    \/ RateLimitWake(1)
    \/ \E response \in HttpResponses : Response(1, response)
    \/ NetworkError(1)
    \/ BackoffWake(1)
    \/ Tick

SpecFetch == InitFetcherOnly /\ [][FetchNext]_vars

FetchConcurrentNext ==
    \/ \E c \in Callers, maxRetries \in 0..MaxRetries :
           Invoke(c, maxRetries, MaxConcurrentCalls)
    \/ \E c \in Callers : RateLimitWake(c)
    \/ \E c \in Callers, response \in HttpResponses : Response(c, response)
    \/ \E c \in Callers : NetworkError(c)
    \/ \E c \in Callers : BackoffWake(c)
    \/ Tick

SpecFetchConcurrent == InitFetcherOnly /\ [][FetchConcurrentNext]_vars

\* Termination is checked over both processes: a behaviour is one of the
\* orchestrator, whose fetches run to their result inside an iteration
\* (fetchLoop), or one of a caller of fetchWithRateLimit that is answered by
\* any sequence of responses and errors.
TerminationNext ==
    \/ calls = 0 /\ IngestNext
    \/ disk = NoFile /\ endpoint = [i \in Ids |-> "ok"] /\ FetchNext

\* what the event loop does once it can: a timer that is due fires, a request
\* is answered (the hypothesis that every request returns), time passes
FetchProgress ==
    \/ RateLimitWake(1)
    \/ \E response \in HttpResponses : Response(1, response)
    \/ NetworkError(1)
    \/ BackoffWake(1)
    \/ Tick

\* A process that is not killed goes on with its loop and its final save:
\* WF_vars(IngestItem \/ FinalSave), written out.  One of the two is enabled
\* exactly when pc = "loop", and it changes idx or pc.
LoopProgress == \A n \in 0..NItems : []<>~(pc = "loop" /\ idx = n)

SpecTermination ==
    /\ Init
    /\ [][TerminationNext]_vars
    /\ WF_vars(FetchProgress)
    /\ LoopProgress

(***************************************************************************)
(* Claims about the orchestrator and the census (specification Spec).      *)
(***************************************************************************)
Resumed == hist.exit = "done" /\ hist.crashes > 0

\* C1: a command line that was interrupted after N processed items, at any
\* point of the run, and run again leaves the census document (dates aside)
\* that one uninterrupted run of it would have left.
C1_ResumeEqualsUninterrupted ==
    Resumed => withoutDates(disk.doc) = hist.expect

\* What does hold of resumed runs: the same, when --limit does not cut the
\* pending list and no interruption fell inside the write of a seed file.
ResumeEqualsUninterruptedWhole ==
    (Resumed /\ ~hist.capped /\ ~hist.torn) => withoutDates(disk.doc) = hist.expect

\* The same without the second proviso: it fails for a run resumed over a seed
\* file that the interruption left half written.
ResumeEqualsUninterruptedTorn ==
    (Resumed /\ ~hist.capped) => withoutDates(disk.doc) = hist.expect

\* entries whose in-memory state differs from the persisted document
Unpersisted == {k \in 1..Len(census.laws) : census.laws[k] # disk.doc.laws[k]}

\* C2: at every point of a run with batch size B, at most B processed entries
\* have mutations that are not yet in the persisted census document.
C2_AtMostOneBatchUnpersisted ==
    pc = "loop" => Cardinality(Unpersisted) <= flags.batchSize

SummaryMatches(c) ==
    /\ c.summary.total_ingested = CountWhere(c.laws, IsIngested)
    /\ c.summary.total_provisions = SumCounts(c.laws)

\* C3: whenever the orchestrator has persisted the census document, its
\* total_ingested is the number of ingested entries and its total_provisions
\* the sum of the entries' provision counts.
C3_SavedSummaryMatches ==
    hist.writer = "ingest" => SummaryMatches(disk.doc)

C3_Witness ==
    /\ hist.writer = "ingest"
    /\ pc = "loop"
    /\ disk.doc.summary.total_ingested >= 1
    /\ disk.doc.summary.total_provisions >= 1
    /\ SummaryMatches(disk.doc)

\* C4: in every census document written by the census builder or by the
\* orchestrator, an entry with ingested = true has a non-null ingestion_date.
C4_IngestedHasDate ==
    disk.state = "ok" =>
        \A k \in 1..Len(disk.doc.laws) :
            disk.doc.laws[k].ingested => disk.doc.laws[k].ingestion_date # NullDate

(***************************************************************************)
(* Claims about one iteration of the orchestrator's loop (Spec).  A step   *)
(* of the loop is a step that leaves pc at "loop" and advances idx.        *)
(***************************************************************************)
LoopStep == pc = "loop" /\ pc' = "loop" /\ idx' = idx + 1

Current == pending[idx + 1]

\* the entry takes the resume path: its seed file exists and --force is absent
TakesSkipPath == ~flags.force /\ seeds[Current.id].state # "absent"

\* the markup comes from data/source and not from the network
ReadsCache == flags.skipFetch /\ source[Current.id].state # "absent"

\* the entry is fetched, and what the document source answers
Fetched(behaviours) ==
    ~TakesSkipPath /\ ~ReadsCache /\ endpoint[Current.id] \in behaviours

EntryOf(c, id) == c.laws[censusMapGet(c, id)]

Last(s) == s[Len(s)]

\* C11: when the fetch for a pending entry returns a non-200 status, the
\* iteration writes a seed with no provisions and no definitions for that id,
\* sets the entry to ingested with provision_count 0, and tallies 'fallback'.
C11_NonOkWritesFallback ==
    [][(LoopStep /\ Fetched({"notfound", "unavailable"})) =>
          /\ seeds'[Current.id].state = "ok"
          /\ seeds'[Current.id].doc.id = Current.id
          /\ seeds'[Current.id].doc.provisions = <<>>
          /\ seeds'[Current.id].doc.definitions = <<>>
          /\ EntryOf(census', Current.id).ingested
          /\ EntryOf(census', Current.id).provision_count = 0
          /\ Last(results') = "fallback"
          /\ tally'.fallbacks = tally.fallbacks + 1
          /\ tally'.failed = tally.failed]_vars

C11_Witness ==
    /\ pc = "loop"
    /\ idx >= 1
    /\ endpoint[pending[idx].id] = "notfound"
    /\ results[idx] = "fallback"
    /\ tally.fallbacks >= 1
    /\ seeds[pending[idx].id].state = "ok"
    /\ seeds[pending[idx].id].doc.provisions = <<>>
    /\ EntryOf(census, pending[idx].id).ingested
    /\ EntryOf(census, pending[idx].id).provision_count = 0


\* a step of the ingest process itself, as opposed to its being killed
OwnStep == pc = "loop" /\ hist'.exit # "crashed"

\* C12: an error raised while an entry is fetched does not end the run: the
\* iteration writes the fallback seed, sets the entry to ingested with
\* provision_count 0, tallies 'failed' and not 'fallback', and the loop goes
\* on with the next pending entry.
C12_ErrorDoesNotAbort ==
    [][(OwnStep /\ idx < Len(pending) /\ Fetched({"neterr"})) =>
          /\ pc' = "loop"
          /\ idx' = idx + 1
          /\ pending' = pending
          /\ seeds'[Current.id].state = "ok"
          /\ seeds'[Current.id].doc.provisions = <<>>
          /\ seeds'[Current.id].doc.definitions = <<>>
          /\ EntryOf(census', Current.id).ingested
          /\ EntryOf(census', Current.id).provision_count = 0
          /\ Last(results') = "failed"
          /\ tally'.failed = tally.failed + 1
          /\ tally'.fallbacks = tally.fallbacks]_vars

\* a failed entry was followed by the processing of the next one
C12_Witness ==
    /\ pc = "loop"
    /\ idx >= 2
    /\ endpoint[pending[idx - 1].id] = "neterr"
    /\ results[idx - 1] = "failed"
    /\ seeds[pending[idx - 1].id].state = "ok"
    /\ seeds[pending[idx - 1].id].doc.provisions = <<>>
    /\ EntryOf(census, pending[idx - 1].id).ingested
    /\ EntryOf(census, pending[idx - 1].id).provision_count = 0

\* C14: when the seed file of a pending entry exists and --force is absent,
\* the iteration calls the fetcher for no request, leaves the seed file (and
\* the markup cache) as they are, and tallies the entry as 'skipped'.
C14_SkipTouchesNothing ==
    [][(LoopStep /\ TakesSkipPath) =>
          /\ tally'.fetches = tally.fetches
          /\ seeds' = seeds
          /\ source' = source
          /\ Last(results') = "skipped"
          /\ tally'.skipped = tally.skipped + 1
          /\ tally'.succeeded = tally.succeeded
          /\ tally'.fallbacks = tally.fallbacks
          /\ tally'.failed = tally.failed]_vars

C14_Witness ==
    /\ pc = "loop"
    /\ idx >= 1
    /\ ~flags.force
    /\ results[idx] = "skipped"
    /\ tally.skipped >= 1
    /\ tally.fetches = 0
    /\ seeds[pending[idx].id].state = "ok"
    /\ seeds[pending[idx].id].doc.provisions # <<>>
    /\ endpoint[pending[idx].id] = "ok"

\* C15: however a run was interrupted, no later run finds the seed file of
\* an entry it is about to process half written: the file is absent or a
\* complete document.
C15_NoTornSeedObserved ==
    (pc = "loop" /\ idx < Len(pending)) => seeds[Current.id].state # "corrupt"

\* the markup the success path parses
Markup == IF ReadsCache THEN source[Current.id].doc ELSE PageOf(Current.id)

\* C16: on the success path (a 200 response or cached markup) the iteration
\* stores the parsed document as the entry's seed file and sets the entry to
\* ingested with provision_count the number of provisions of the stored
\* document, and tallies 'success'.
C16_SuccessStoresParsed ==
    [][(LoopStep /\ ~TakesSkipPath /\ (ReadsCache \/ endpoint[Current.id] = "ok")) =>
          /\ seeds'[Current.id] = File(parseSpanishHtml(Markup, censusEntryToAct(Current)))
          /\ EntryOf(census', Current.id).ingested
          /\ EntryOf(census', Current.id).provision_count
                = Len(seeds'[Current.id].doc.provisions)
          /\ Last(results') = "success"
          /\ tally'.succeeded = tally.succeeded + 1]_vars

C16_Witness ==
    /\ pc = "loop"
    /\ idx >= 1
    /\ results[idx] = "success"
    /\ seeds[pending[idx].id].state = "ok"
    /\ Len(seeds[pending[idx].id].doc.provisions) = 2
    /\ EntryOf(census, pending[idx].id).ingested
    /\ EntryOf(census, pending[idx].id).provision_count = 2

\* the entries of pend appear in c.laws in the same order, each once
InCensusOrder(pend, c) ==
    \A i, j \in 1..Len(pend) :
        i < j => censusMapGet(c, pend[i].id) < censusMapGet(c, pend[j].id)

\* C17: a run processes its pending entries one at a time in the order of
\* the census document: the work list follows that order with no entry
\* twice, each iteration gives the next entry of the list its one outcome,
\* and touches the seed file and the census entry of no other entry.
C17_ProcessedInCensusOrder ==
    [][LoopStep =>
          /\ InCensusOrder(pending, census)
          /\ pending' = pending
          /\ Len(results) = idx
          /\ results' = Append(results, Last(results'))
          /\ tally'.processed = idx + 1
          /\ \A k \in 1..Len(pending) :
                k # idx + 1 =>
                    /\ seeds'[pending[k].id] = seeds[pending[k].id]
                    /\ source'[pending[k].id] = source[pending[k].id]
                    /\ EntryOf(census', pending[k].id) = EntryOf(census, pending[k].id)]_vars

C17_Witness ==
    /\ pc = "loop"
    /\ Len(pending) >= 2
    /\ idx = Len(pending)
    /\ Len(results) = idx
    /\ InCensusOrder(pending, census)
    /\ pending[1].id = census.laws[1].id
    /\ pending[2].id = census.laws[2].id
    /\ \A k \in 1..idx : EntryOf(census, pending[k].id).ingested

(***************************************************************************)
(* Claims about disk writes that fail (SpecFaults).                        *)
(***************************************************************************)
\* C13: a disk write that fails during a run is fatal for the run: once a
\* write of the markup cache, of a seed file or of the census document has
\* thrown, the run has stopped, and it never goes on as after a 'failed' entry.
C13_WriteFailureIsFatal ==
    writeErrors > 0 => pc = "aborted"

(***************************************************************************)
(* Claims about the fetcher (SpecFetch, SpecFetchConcurrent).              *)
(***************************************************************************)
Ended(c) == call[c].pc = "done"

\* C5: a call whose every attempt was answered 429 or 5xx has issued exactly
\* maxRetries + 1 requests, and no call ever issues more than that.
C5_ExactlyMaxRetriesPlusOne ==
    \A c \in Callers :
        /\ call[c].requests <= call[c].maxRetries + 1
        /\ (Ended(c) /\ call[c].retryableOnly) => call[c].requests = call[c].maxRetries + 1

C5_Witness ==
    /\ Ended(1)
    /\ call[1].retryableOnly
    /\ call[1].maxRetries = DEFAULT_MAX_RETRIES
    /\ call[1].requests = 4

\* C6: a call whose every attempt, the initial one and all the retries, was
\* answered 429 or 5xx ends with a thrown error and returns no result.
C6_ExhaustedThrows ==
    \A c \in Callers :
        (Ended(c) /\ call[c].retryableOnly /\ call[c].requests = call[c].maxRetries + 1)
            => call[c].result.kind = "throw"

\* C7: with one caller, any two consecutive HTTP requests start at least
\* MIN_DELAY_MS apart, retries and successive calls alike.
C7_RequestsSpaced ==
    lastGap = -1 \/ lastGap >= MIN_DELAY_MS

\* C8: with concurrent callers that never retry, any two consecutive HTTP
\* requests start at least MIN_DELAY_MS apart.
C8_ConcurrentRequestsSpaced ==
    ~retried => (lastGap = -1 \/ lastGap >= MIN_DELAY_MS)

\* C9: of two calls made one after the other, the request of the second starts
\* at least MIN_DELAY_MS after the request of the first started.
C9_CallsSpaced ==
    callGap = -1 \/ callGap >= MIN_DELAY_MS

C9_Witness ==
    /\ calls = 2
    /\ call[1].pc = "fetch"
    /\ call[1].attempt = 0
    /\ call[1].wake = now
    /\ now = callStart
    /\ callGap = MIN_DELAY_MS

\* C10: a call whose first response is neither 429 nor 5xx has ended with that
\* one request and no backoff, and has returned the response's status, body,
\* content type ('' when the header is missing) and final URL.
C10_OtherStatusReturnsAtOnce ==
    \A c \in Callers :
        (call[c].first.kind = "http" /\ ~(call[c].first.status = 429 \/ call[c].first.status >= 500))
            => /\ Ended(c)
               /\ call[c].requests = 1
               /\ call[c].slept = <<>>
               /\ call[c].result =
                    [kind |-> "return",
                     status |-> call[c].first.status,
                     body |-> call[c].first.body,
                     contentType |-> IF call[c].first.contentType = Null THEN ""
                                     ELSE call[c].first.contentType,
                     url |-> call[c].first.url]

C10_Witness ==
    /\ Ended(1)
    /\ call[1].first.kind = "http"
    /\ call[1].first.status = 404
    /\ call[1].requests = 1
    /\ call[1].result.kind = "return"
    /\ call[1].result.status = 404

(***************************************************************************)
(* The census pagination (scripts/census.ts), under SpecCensus            *)
(***************************************************************************)
RECURSIVE Concat(_)
\* the concatenation of a sequence of pages
Concat(ps) == IF ps = <<>> THEN <<>> ELSE Concat(SubSeq(ps, 1, Len(ps) - 1)) \o Last(ps)

\* the pages are requested at offsets 0, PAGE_SIZE, 2 * PAGE_SIZE, ...; a
\* page is followed by another request only if it was full; the loop has
\* stopped exactly when the last page returned was short or empty; the items
\* collected are the concatenation of the pages returned
PagedInOrder ==
    /\ \A k \in 1..Len(requested) : requested[k] = (k - 1) * PAGE_SIZE
    /\ \A k \in 1..Len(pages) : k < Len(requested) => Len(pages[k]) >= PAGE_SIZE
    /\ cpc = "fetch" => \A k \in 1..Len(pages) : Len(pages[k]) >= PAGE_SIZE
    /\ cpc = "collected" =>
          /\ pages # <<>>
          /\ Len(Last(pages)) < PAGE_SIZE
          /\ Len(requested) = Len(pages)
    /\ cpc \in {"fetch", "collected", "aborted"} => allItems = Concat(pages)

\* C18: the census requests the catalog in fixed-size pages at increasing
\* offsets, stops after the first short or empty page and only then, collects
\* exactly the concatenation of the pages returned, and terminates for any
\* finite catalog.
C18_PaginationCollectsPages ==
    /\ []PagedInOrder
    /\ [](cpc = "fetch" => <>(cpc \in {"collected", "aborted"}))

\* three requests: two full pages, then the empty page that ends the loop
C18_Witness ==
    /\ cpc = "collected"
    /\ Len(requested) = 3
    /\ Last(pages) = <<>>
    /\ allItems = catalog
    /\ Len(catalog) = 2 * PAGE_SIZE

\* a request that fetchPage threw on: it has no page
PageFailed == Len(requested) > Len(pages)

HasUrlAndId(url, id) == url # EmptyStr /\ id # NoId

C21_MapStatus ==
    /\ \A k \in 1..Len(catalog) :
          mapStatus(catalog[k]) =
              IF catalog[k].vigencia_agotada = "S" THEN "repealed"
              ELSE IF catalog[k].estado_consolidacion.codigo = "4" THEN "amended"
              ELSE "in_force"
    /\ cpc = "done" =>
          \A k \in 1..Len(disk.doc.laws) :
              LET e == disk.doc.laws[k] IN
              /\ e.vigencia_agotada = "S" => e.status = "repealed"
              /\ e.vigencia_agotada # "S" /\ e.estado_consolidacion_codigo = "4"
                     => e.status = "amended"
              /\ e.vigencia_agotada # "S" /\ e.estado_consolidacion_codigo # "4"
                     => e.status = "in_force"

\* a census written with an expired and outdated item mapped to repealed, and
\* an outdated item that has not expired mapped to amended
C21_Witness ==
    /\ cpc = "done"
    /\ \E k \in 1..Len(disk.doc.laws) :
          /\ disk.doc.laws[k].vigencia_agotada = "S"
          /\ disk.doc.laws[k].estado_consolidacion_codigo = "4"
          /\ disk.doc.laws[k].status = "repealed"
    /\ \E k \in 1..Len(disk.doc.laws) :
          /\ disk.doc.laws[k].vigencia_agotada = "N"
          /\ disk.doc.laws[k].estado_consolidacion_codigo = "4"
          /\ disk.doc.laws[k].status = "amended"

\* the orders in which the API may return the same n items
Perms(n) == {p \in [1..n -> 1..n] : \A i, j \in 1..n : i # j => p[i] # p[j]}

Permute(items, p) == [k \in 1..Len(items) |-> items[p[k]]]

DateKey(e) == IF e.fecha_disposicion # EmptyStr THEN e.fecha_disposicion ELSE ZeroDate

\* by disposition date descending, by identifier ascending among equal dates
DateDescThenIdAsc(laws) ==
    \A k \in 1..(Len(laws) - 1) :
        \/ StrLess(DateKey(laws[k + 1]), DateKey(laws[k]))
        \/ DateKey(laws[k + 1]) = DateKey(laws[k]) /\ laws[k].id <= laws[k + 1].id

\* the census a run would write had the API returned the catalog in order p
WrittenFor(p) == buildCensus(selectItems(Permute(catalog, p), cargs), seeds)

\* C22: the census written is ordered by disposition date descending and by
\* identifier ascending among equal dates, and it is the same in whatever
\* order the catalog returns the same items.
C22_OrderIndependentOfUpstream ==
    cpc = "done" =>
        /\ DateDescThenIdAsc(disk.doc.laws)
        /\ \A p \in Perms(Len(catalog)) : WrittenFor(p).laws = disk.doc.laws

\* the entries of a list that have a value in a field, counted per value
CountBy(laws, field) ==
    [v \in {laws[k][field] : k \in 1..Len(laws)} |->
        Cardinality({k \in 1..Len(laws) : laws[k][field] = v})]

SummaryIsAggregate(doc) ==
    /\ doc.summary.total_laws = Len(doc.laws)
    /\ doc.summary.total_ingestable =
          Cardinality({k \in 1..Len(doc.laws) : doc.laws[k].classification = "ingestable"})
    /\ doc.summary.total_not_ingestable =
          Cardinality({k \in 1..Len(doc.laws) : doc.laws[k].classification = "not_ingestable"})
    /\ doc.summary.total_skip =
          Cardinality({k \in 1..Len(doc.laws) : doc.laws[k].classification = "skip"})
    /\ doc.summary.scope_breakdown = CountBy(doc.laws, "ambito")
    /\ doc.summary.rango_breakdown = CountBy(doc.laws, "rango")

\* C23: in every census document persisted, by the census builder or by the
\* ingestion, total_laws, the three per-classification totals and the scope
\* and rango breakdowns equal the aggregates recomputed from the entries.
C23_SummaryIsAggregate == disk.state = "ok" => SummaryIsAggregate(disk.doc)

\* the ingestion has saved a census of two entries of different rango, one of
\* them not ingestable, after ingesting one
C23_Witness ==
    /\ disk.state = "ok"
    /\ hist.writer = "ingest"
    /\ Len(disk.doc.laws) = 2
    /\ disk.doc.summary.total_ingested = 1
    /\ disk.doc.summary.total_not_ingestable = 1
    /\ DOMAIN disk.doc.summary.rango_breakdown = {"Ley", "Real Decreto"}

\* the first n entries of a list, all of them when it has fewer
FirstN(list, n) == SubSeq(list, 1, IF Len(list) < n THEN Len(list) ELSE n)

\* C24: when --limit L (L >= 0) is given, a run of the ingestion processes at
\* most L entries: the first L pending entries of the census, in its order.
C24_LimitCapsRun ==
    /\ [](pc = "loop" /\ flags.limitGiven =>
             Len(pending) <= flags.limit /\ tally.processed <= flags.limit)
    /\ [][pc = "idle" /\ pc' = "loop" /\ flags'.limitGiven =>
             pending' = FirstN(allPending(disk.doc, flags'), flags'.limit)]_vars

\* C25: with --skip-fetch, an entry that is processed (not skipped) and has a
\* markup cache file is parsed from that file and no request is made for it;
\* the markup cache file of an identifier is only ever written with the body
\* of a 200 response.
C25_CacheReadNoRequest ==
    /\ [][LoopStep /\ ~TakesSkipPath /\ ReadsCache =>
             /\ tally'.fetches = tally.fetches
             /\ source' = source
             /\ seeds'[Current.id] =
                   File(parseSpanishHtml(source[Current.id].doc, censusEntryToAct(Current)))]_vars
    /\ [][\A i \in Ids : source'[i] # source[i] =>
             /\ pc = "loop" /\ idx < Len(pending) /\ Current.id = i
             /\ ~TakesSkipPath /\ ~ReadsCache
             /\ endpoint[i] = "ok"
             /\ source'[i] = File(Respond("ok", i).body)]_vars

\* a run with --skip-fetch has parsed an entry from the cache without a request
C25_Witness ==
    /\ pc = "loop"
    /\ flags.skipFetch
    /\ tally.processed = 1
    /\ tally.succeeded = 1
    /\ tally.fetches = 0
    /\ source[pending[1].id] = File(Respond("ok", pending[1].id).body)
    /\ seeds[pending[1].id].state = "ok"

(***************************************************************************)
(* The parser (scripts/lib/parser.ts), under SpecParse                     *)
(***************************************************************************)
\* the provisions of every output so far
AllProvisions ==
    UNION {{parses[c].output.provisions[k] : k \in 1..Len(parses[c].output.provisions)} :
              c \in 1..Len(parses)}

\* C26: under both strategies, every provision of the parser's output has a
\* body of at most 12,000 characters (ContentCap in the model).
C26_BodyWithinCap == \A pr \in AllProvisions : Len(pr.content) <= ContentCap

\* a body longer than the cap was parsed under the fallback strategy, and the
\* provision kept has exactly the cap
C26_Witness ==
    /\ parses # <<>>
    /\ ~parses[1].html.divs
    /\ Len(parses[1].html.blocks) = 1
    /\ Len(parses[1].html.blocks[1].body) > ContentCap
    /\ Len(parses[1].output.provisions) = 1
    /\ Len(parses[1].output.provisions[1].content) = ContentCap

\* the ordinal of a candidate can be determined: from its heading, or, under
\* the primary strategy, from the id attribute of its container
OrdinalDetermined(block, divs) ==
    \/ \E k \in 1..Len(block.ordinal) : block.ordinal[k] # Space
    \/ divs /\ block.idOrdinal # <<>>

\* the candidates of a call that may appear in its output
Kept(c) ==
    SelectSeq(parses[c].html.blocks,
              LAMBDA b : OrdinalDetermined(b, parses[c].html.divs) /\ Len(b.body) >= 5)

\* C27: under both strategies, a candidate whose stripped body has fewer than
\* 5 characters never appears in the output, and a candidate whose ordinal
\* cannot be determined is discarded, not kept under a placeholder key.
C27_ShortOrUnnumberedDiscarded ==
    \A c \in 1..Len(parses) :
        /\ Len(parses[c].output.provisions) = Len(Kept(c))
        /\ \A k \in 1..Len(parses[c].output.provisions) :
              LET pr == parses[c].output.provisions[k] IN
              /\ pr.section # <<>>
              /\ pr.provision_ref # <<97, 114, 116>>
              /\ pr.content = SubSeq(Kept(c)[k].body, 1, Len(pr.content))
              /\ Len(pr.content) >= 5

\* a container without ordinal was dropped from one document and an article
\* of four characters from another, each next to an article that was kept
C27_Witness ==
    \E c, d \in 1..Len(parses) :
        /\ parses[c].html.divs
        /\ Len(parses[c].html.blocks) = 2
        /\ parses[c].html.blocks[1].ordinal = <<>>
        /\ parses[c].html.blocks[1].idOrdinal = <<>>
        /\ Len(parses[c].output.provisions) = 1
        /\ parses[d].html = OtherDocument
        /\ Len(parses[d].output.provisions) = 1

\* the ordinals matched in the headings of the documents
MatchedOrdinals ==
    UNION {{docs[d].blocks[k].ordinal : k \in 1..Len(docs[d].blocks)} : d \in 1..Len(docs)}
    \ {<<>>}

\* an ordinal without its spaces and with its letters in lower case
Canonical(o) == [k \in 1..Len(SelectSeq(o, LAMBDA c : c # Space)) |->
                    LET ch == SelectSeq(o, LAMBDA c : c # Space)[k]
                    IN IF ch \in 65..90 THEN ch + 32 ELSE ch]

\* C28 (as stated): the key derivation is injective on matched ordinals: two
\* distinct ordinals yield distinct keys, equal ordinals equal keys.
C28_KeyInjective ==
    \A o1, o2 \in MatchedOrdinals :
        (o1 = o2) <=> (provisionRef(o1) = provisionRef(o2))

\* C28 (amended): the key derivation is injective up to letter case and
\* whitespace: two matched ordinals yield the same key exactly when they are
\* the same once lower-cased and stripped of whitespace; every key is 'art'
\* followed by that form, and the parser's outputs carry these keys.
C28_KeyInjectiveUpToCase ==
    /\ \A o1, o2 \in MatchedOrdinals :
          (Canonical(o1) = Canonical(o2)) <=> (provisionRef(o1) = provisionRef(o2))
    /\ \A c \in 1..Len(parses) : \A k \in 1..Len(Kept(c)) :
          Kept(c)[k].ordinal # <<>> =>
              /\ SubSeq(parses[c].output.provisions[k].provision_ref, 1, 3) = <<97, 114, 116>>
              /\ SubSeq(parses[c].output.provisions[k].provision_ref, 4,
                         Len(parses[c].output.provisions[k].provision_ref))
                    = Canonical(Kept(c)[k].ordinal)

\* a document with the headings "1 bis" and "1bis" was parsed: one key twice
C28_Witness ==
    \E c \in 1..Len(parses) :
        /\ Len(parses[c].output.provisions) = 2
        /\ parses[c].html.blocks[1].ordinal = <<49, 32, 98, 105, 115>>
        /\ parses[c].html.blocks[2].ordinal = <<49, 98, 105, 115>>
        /\ parses[c].output.provisions[1].provision_ref
             = parses[c].output.provisions[2].provision_ref

SingleMatch(c) ==
    /\ Len(parses[c].html.blocks) = 1
    /\ Len(Kept(c)) = 1
    /\ parses[c].html.blocks[1].title = Definiciones
    /\ Len(parses[c].html.blocks[1].matches) = 1

\* the match of such a call is among the definitions returned
Accepted(c) ==
    \E k \in 1..Len(parses[c].output.definitions) :
        /\ parses[c].output.definitions[k].term = trim(parses[c].html.blocks[1].matches[1].term)
        /\ parses[c].output.definitions[k].definition
             = trim(parses[c].html.blocks[1].matches[1].definition)

\* C30: a definition-pattern match is rejected exactly when its trimmed term
\* has fewer than 2 or more than 99 characters or its trimmed definition text
\* has fewer than 10; a non-duplicate match with a term of 2 or 99 characters
\* and a definition of 10 is accepted.
C30_DefinitionBounds ==
    \A c \in 1..Len(parses) :
        SingleMatch(c) =>
            LET m == parses[c].html.blocks[1].matches[1] IN
            Accepted(c) <=> /\ Len(trim(m.term)) >= 2
                            /\ Len(trim(m.term)) <= 99
                            /\ Len(trim(m.definition)) >= 10

\* C31: within one document returned by the parser, no two definitions have
\* the same term and the same source provision, whichever pattern (lettered,
\* quoted, numbered) produced them.
C31_DefinitionsUnique ==
    \A c \in 1..Len(parses) :
        \A i, j \in 1..Len(parses[c].output.definitions) :
            i # j =>
                \/ parses[c].output.definitions[i].term # parses[c].output.definitions[j].term
                \/ parses[c].output.definitions[i].source_provision
                     # parses[c].output.definitions[j].source_provision

\* C32: parsing the one provision container headed 'Artículo 3 bis.
\* Definiciones' with the body 'a) Dato: cualquier información.' yields exactly
\* one provision, keyed art3bis and titled Definiciones, and exactly one
\* definition, of the term Dato as 'cualquier información.'
C32_ExampleParse ==
    \A c \in 1..Len(parses) :
        parses[c].html = ExampleDocument =>
            /\ Len(parses[c].output.provisions) = 1
            /\ parses[c].output.provisions[1].provision_ref = <<97, 114, 116, 51, 98, 105, 115>>
            /\ parses[c].output.provisions[1].title = Definiciones
            /\ Len(parses[c].output.definitions) = 1
            /\ parses[c].output.definitions[1].term = <<68, 97, 116, 111>>
            /\ parses[c].output.definitions[1].definition =
                   <<99, 117, 97, 108, 113, 117, 105, 101, 114, 32, 105, 110, 102, 111, 114, 109, 97, 99, 105, 243, 110, 46>>

C32_Witness ==
    \E c \in 1..Len(parses) :
        /\ parses[c].html = ExampleDocument
        /\ parses[c].output.provisions # <<>>
        /\ parses[c].output.definitions # <<>>

\* the fields of a census entry other than its ingestion progress are the same
SameButProgress(a, b) ==
    [a EXCEPT !.ingested = b.ingested, !.provision_count = b.provision_count,
              !.ingestion_date = b.ingestion_date] = b

\* entry l of the work list was ingestable and, unless forced, not ingested at load
Eligible(l) == l.classification = "ingestable" /\ (flags.force \/ ~l.ingested)

\* laws2 is laws with the progress of some of the first n pending entries changed
OnlyProgressOf(laws, laws2, n) ==
    /\ Len(laws2) = Len(laws)
    /\ \A k \in 1..Len(laws) :
         /\ SameButProgress(laws[k], laws2[k])
         /\ laws2[k] # laws[k] =>
                \E j \in 1..n : /\ j <= Len(pending)
                                /\ pending[j].id = laws[k].id
                                /\ laws[k].classification = "ingestable"
                                /\ Eligible(pending[j])

\* C33: the orchestrator never changes the classification of an entry and
\* never adds, removes or reorders entries, in memory or in the census file;
\* it fetches, writes a seed for, and changes the progress of entries
\* classified ingestable only, and unless forced only of entries that were
\* not ingested when the census was loaded.
C33_OnlyEligibleTouched ==
    [][pc = "loop" =>
         /\ pc' = "loop" =>
               /\ OnlyProgressOf(census.laws, census'.laws, idx + 1)
               /\ \A k \in 1..Len(census.laws) :
                    census'.laws[k] # census.laws[k] => census.laws[k].id = pending[idx + 1].id
         /\ disk' # disk =>
               /\ disk'.state = "ok"
               /\ OnlyProgressOf(disk.doc.laws, disk'.doc.laws, idx + 1)
         /\ \A i \in Ids :
               seeds'[i] # seeds[i] \/ source'[i] # source[i] =>
                   /\ idx < Len(pending)
                   /\ pending[idx + 1].id = i
                   /\ Eligible(pending[idx + 1])
         /\ tally'.fetches > tally.fetches =>
               /\ idx < Len(pending)
               /\ Eligible(pending[idx + 1])]_vars

\* a forced run over a census with an entry that is not ingestable and one
\* that was ingested at load has fetched and recorded an entry
C33_Witness ==
    /\ pc = "loop"
    /\ idx >= 1
    /\ tally.fetches >= 1
    /\ \E k \in 1..Len(census.laws) : census.laws[k].classification # "ingestable"
    /\ \E j \in 1..Len(pending) : pending[j].ingested
    /\ \E k \in 1..Len(census.laws) : census.laws[k].ingested

\* C34: within one call of fetchWithRateLimit the backoff slept before the
\* k-th retry is 2^k x 1000 ms: the first is 2000 ms and each one is double
\* the one before; there are at most maxRetries of them, one per request but
\* the last, so none is slept after the final attempt.
C34_BackoffDoubles ==
    \A c \in Callers :
        /\ Len(call[c].slept) <= call[c].maxRetries
        /\ \A k \in 1..Len(call[c].slept) :
             call[c].slept[k] = IF k = 1 THEN 2 * 1000 ELSE 2 * call[c].slept[k - 1]
        /\ call[c].pc \in {"fetch", "done"} => Len(call[c].slept) = call[c].requests - 1
        /\ call[c].pc = "backoff" =>
              /\ Len(call[c].slept) = call[c].requests
              /\ call[c].wake - now <= call[c].slept[Len(call[c].slept)]

\* a call of three retries has ended on its fourth response
C34_Witness ==
    \E c \in Callers :
        /\ call[c].pc = "done"
        /\ call[c].maxRetries = 3
        /\ Len(call[c].slept) = 3
        /\ call[c].requests = 4

\* the counter of main() that tallies an outcome
CounterOf(outcome) ==
    CASE outcome = "success" -> "succeeded"
      [] outcome = "fallback" -> "fallbacks"
      [] outcome = "failed" -> "failed"
      [] outcome = "skipped" -> "skipped"

\* C35: each entry processed in a run reaches exactly one of the outcomes
\* success, fallback, failed, skipped: its iteration adds one to processed, one
\* to the counter of that outcome and to no other, and pushes one result
\* record of that outcome; so between iterations and when the run ends
\* processed == succeeded + skipped + fallbacks + failed, with one record each.
C35_OneOutcomeEach ==
    /\ [][pc = "loop" /\ pc' = "loop" /\ idx' = idx + 1 =>
            /\ tally'.processed = tally.processed + 1
            /\ Len(results') = Len(results) + 1
            /\ SubSeq(results', 1, Len(results)) = results
            /\ Last(results') \in {"success", "fallback", "failed", "skipped"}
            /\ \A o \in {"success", "fallback", "failed", "skipped"} :
                 tally'[CounterOf(o)] =
                     tally[CounterOf(o)] + IF o = Last(results') THEN 1 ELSE 0]_vars
    /\ [](pc = "loop" =>
            /\ tally.processed = idx
            /\ Len(results) = tally.processed
            /\ tally.processed =
                   tally.succeeded + tally.skipped + tally.fallbacks + tally.failed)

\* a run is at its end with entries of two different outcomes
C35_Witness ==
    /\ pc = "loop"
    /\ idx = Len(pending)
    /\ idx = 2
    /\ results[1] # results[2]

\* C36: when a run completes (its final save is done), every entry it
\* processed, whatever its outcome, is ingested with a non-null
\* ingestion_date in the census file.
C36_ProcessedMarked ==
    [][pc = "loop" /\ idx = Len(pending) /\ hist'.exit = "done" =>
          \A j \in 1..Len(pending) :
              \E k \in 1..Len(disk'.doc.laws) :
                  /\ disk'.doc.laws[k].id = pending[j].id
                  /\ disk'.doc.laws[k].ingested
                  /\ disk'.doc.laws[k].ingestion_date # NullDate]_vars

\* C37: in every state of the data directory (census file and seed files),
\* whether runs were interrupted or forced, each entry of the census file that
\* is ingested has a readable seed file whose number of provisions is the
\* entry's provision_count.
C37_IngestedHasSeed ==
    disk.state = "ok" =>
        \A k \in 1..Len(disk.doc.laws) :
            disk.doc.laws[k].ingested =>
                /\ disk.doc.laws[k].id \in DOMAIN seeds
                /\ seeds[disk.doc.laws[k].id].state = "ok"
                /\ Len(seeds[disk.doc.laws[k].id].doc.provisions)
                      = disk.doc.laws[k].provision_count

\* every entry of laws that is ingested is ingested in laws2
StaysIngested(laws, laws2) ==
    /\ Len(laws2) = Len(laws)
    /\ \A k \in 1..Len(laws) : laws[k].ingested => laws2[k].ingested

\* C38: no step of a running ingest process turns the ingested flag of an
\* entry from true to false, in memory or in the census file, and each census
\* file the run writes has a summary.total_ingested at least that of the file
\* it replaces.
C38_IngestedMonotonic ==
    [][pc = "loop" =>
         /\ pc' = "loop" => StaysIngested(census.laws, census'.laws)
         /\ disk' # disk =>
               /\ StaysIngested(disk.doc.laws, disk'.doc.laws)
               /\ disk'.doc.summary.total_ingested >= disk.doc.summary.total_ingested]_vars

\* a forced run has processed again an entry that was ingested at load, with
\* a fallback seed, and has saved the census
C38_Witness ==
    /\ pc = "loop"
    /\ flags.force
    /\ idx >= 1
    /\ pending[1].ingested
    /\ results[1] \in {"fallback", "failed"}
    /\ hist.writer = "ingest"

\* C39: when the request of an attempt fails with a thrown network error,
\* fetchWithRateLimit ends there with that error: no further request and no
\* backoff; a backoff (and so a retry) follows a response of status 429 or
\* 5xx only.
C39_NetworkErrorPropagates ==
    [][\A c \in Callers :
          call[c].pc = "fetch" /\ call'[c] # call[c] =>
              /\ call'[c].last = NetError =>
                    /\ call'[c].pc = "done"
                    /\ call'[c].result = [kind |-> "throw", error |-> "network"]
                    /\ call'[c].requests = call[c].requests
                    /\ call'[c].slept = call[c].slept
              /\ call'[c].pc = "backoff" =>
                    /\ call'[c].last.kind = "http"
                    /\ call'[c].last.status = 429 \/ call'[c].last.status >= 500]_vars

\* a call with retries left has ended on a network error in its second attempt
C39_Witness ==
    \E c \in Callers :
        /\ call[c].pc = "done"
        /\ call[c].last = NetError
        /\ call[c].requests = 2
        /\ call[c].maxRetries = 3
        /\ call[c].result.kind = "throw"

=============================================================================
